---- MODULE Spec2Model ----
(***************************************************************************)
(* GEDCOM shell navigator: line tokenizer, record assembler (GedcomParser), *)
(* graph model (Tree) and tree traversal (Formatter).                       *)
(*                                                                         *)
(* Conventions of the model                                                *)
(*  - a JavaScript string is a sequence of one-character strings;          *)
(*  - an optional value (undefined / null / absent property) is <<>>, a    *)
(*    present value v is <<v>>;                                            *)
(*  - a JavaScript Map is a sequence of [key, val] entries in insertion    *)
(*    order;                                                               *)
(*  - an object that the code aliases lives in `heap` and is named by its  *)
(*    index.                                                               *)
(***************************************************************************)
EXTENDS Integers, Sequences, FiniteSets, TLC

VARIABLES
    pc,             \* position of parse(): "loop", "returned" or "thrown"
    lines,          \* the lines of the file read so far (content.split)
    tree,           \* GedcomParser.tree
    currentRecord,  \* GedcomParser.currentRecord
    currentEvent,   \* GedcomParser.currentEvent (heap index, 0 = null)
    stack,          \* GedcomParser.stack
    heap,           \* the objects referenced by stack / currentEvent / data
    query,          \* the Tree query called last: its name and argument
    result,         \* what that query returned
    frames,         \* the activations of formatAncestors / formatDescendants
    out,            \* the individual of each line the traversal pushed
    visited,        \* the visited set threaded through the traversal
    fictionalDateContext,  \* dateParser.js: the date override, or null
    disk,           \* the lines of the file at GedcomShellNavigator.filepath
    models,         \* the Tree objects built so far, in the order built
    app,            \* GedcomShellNavigator: tree (index in models, 0 = null)
    navigator,      \* Navigator: tree, currentPath, currentIndividual,
                    \* currentFamily, history
    formatter       \* Formatter: tree

parseVars == <<pc, lines, tree, currentRecord, currentEvent, stack, heap>>
queryVars == <<query, result>>
walkVars == <<frames, out, visited>>
shellVars == <<fictionalDateContext, disk, models, app, navigator, formatter>>

vars == <<pc, lines, tree, currentRecord, currentEvent, stack, heap,
          query, result, frames, out, visited,
          fictionalDateContext, disk, models, app, navigator, formatter>>

----------------------------------------------------------------------------
(* Strings *)

Digits == {"0", "1", "2", "3", "4", "5", "6", "7", "8", "9"}

Letters == {"A", "B", "C", "D", "E", "F", "G", "H", "I", "J", "K", "L", "M",
            "N", "O", "P", "Q", "R", "S", "T", "U", "V", "W", "X", "Y", "Z",
            "a", "b", "c", "d", "e", "f", "g", "h", "i", "j", "k", "l", "m",
            "n", "o", "p", "q", "r", "s", "t", "u", "v", "w", "x", "y", "z"}

\* \d, \s and \w of a JavaScript regular expression
IsDigit(c) == c \in Digits
IsSpace(c) == c \in {" ", "\t"}
IsWord(c) == c \in Letters \cup Digits \cup {"_"}

None == <<>>
Some(v) == <<v>>
IsSome(o) == o # <<>>
Get(o) == o[1]

\* String.prototype.trim
RECURSIVE TrimLeft(_)
TrimLeft(s) ==
    IF s # <<>> /\ IsSpace(Head(s)) THEN TrimLeft(Tail(s)) ELSE s

RECURSIVE TrimRight(_)
TrimRight(s) ==
    IF s # <<>> /\ IsSpace(s[Len(s)]) THEN TrimRight(SubSeq(s, 1, Len(s) - 1)) ELSE s

Trim(s) == TrimRight(TrimLeft(s))

\* the length of the longest prefix of s from position i whose characters are
\* all in the class (a greedy X+ / X* of the regular expression)
RECURSIVE RunDigits(_, _)
RunDigits(s, i) ==
    IF i <= Len(s) /\ IsDigit(s[i]) THEN 1 + RunDigits(s, i + 1) ELSE 0

RECURSIVE RunSpaces(_, _)
RunSpaces(s, i) ==
    IF i <= Len(s) /\ IsSpace(s[i]) THEN 1 + RunSpaces(s, i + 1) ELSE 0

RECURSIVE RunWord(_, _)
RunWord(s, i) ==
    IF i <= Len(s) /\ IsWord(s[i]) THEN 1 + RunWord(s, i + 1) ELSE 0

DigitValue(c) ==
    CASE c = "0" -> 0 [] c = "1" -> 1 [] c = "2" -> 2 [] c = "3" -> 3
      [] c = "4" -> 4 [] c = "5" -> 5 [] c = "6" -> 6 [] c = "7" -> 7
      [] c = "8" -> 8 [] c = "9" -> 9

\* parseInt(s, 10) of a string of digits
RECURSIVE ParseInt(_)
ParseInt(s) ==
    IF s = <<>> THEN 0
    ELSE 10 * ParseInt(SubSeq(s, 1, Len(s) - 1)) + DigitValue(s[Len(s)])

StartsWith(s, c) == s # <<>> /\ s[1] = c
EndsWith(s, c) == s # <<>> /\ s[Len(s)] = c

\* position of the first c in s at or after i, 0 when there is none
RECURSIVE IndexOf(_, _, _)
IndexOf(s, c, i) ==
    IF i > Len(s) THEN 0
    ELSE IF s[i] = c THEN i
    ELSE IndexOf(s, c, i + 1)

\* s.replace(/\//g, '')
RECURSIVE RemoveSlashes(_)
RemoveSlashes(s) ==
    IF s = <<>> THEN <<>>
    ELSE IF Head(s) = "/" THEN RemoveSlashes(Tail(s))
    ELSE <<Head(s)>> \o RemoveSlashes(Tail(s))

----------------------------------------------------------------------------
(* Line tokenizer *)

\* The regular expression /^(\d+)\s+(@\w+@\s+)?(\w+)(\s+(.*))?$/ applied to
\* the trimmed line t, one group after the other. Every quantified class is
\* followed by a character outside the class, so the greedy runs are the only
\* possible match. The result is None or the groups (level, xref, tag, value).

\* (\s+(.*))?$ with r the first position after TAG and nvs the blanks there
MatchValue(t, nd, xref, q, r, nvs) ==
    IF r <= Len(t) /\ nvs = 0 THEN None
    ELSE Some([level |-> SubSeq(t, 1, nd),
               xref  |-> xref,
               tag   |-> SubSeq(t, q, r - 1),
               value |-> IF r <= Len(t) THEN Some(SubSeq(t, r + nvs, Len(t))) ELSE None])

\* (\w+) at position q, nt the word characters there
MatchTag(t, nd, xref, q, nt) ==
    IF nt = 0 THEN None
    ELSE MatchValue(t, nd, xref, q, q + nt, RunSpaces(t, q + nt))

\* the \s+ that ends (@\w+@\s+), xend the position of the closing @
MatchXrefGap(t, nd, p, xend, nxs) ==
    IF nxs = 0 THEN None
    ELSE MatchTag(t, nd, Some(SubSeq(t, p, xend + nxs)), xend + nxs + 1,
                  RunWord(t, xend + nxs + 1))

\* (@\w+@\s+) at position p where t[p] is @, nx the word characters after it
MatchXref(t, nd, p, nx) ==
    IF nx = 0 \/ p + nx + 1 > Len(t) THEN None
    ELSE IF t[p + nx + 1] # "@" THEN None
    ELSE MatchXrefGap(t, nd, p, p + nx + 1, RunSpaces(t, p + nx + 2))

\* \s+ after the level, then the optional XREF; a line that has an @ here
\* and no XREF cannot match, since @ begins no TAG
MatchGap(t, nd, ns) ==
    IF ns = 0 THEN None
    ELSE IF nd + ns + 1 <= Len(t) /\ t[nd + ns + 1] = "@"
         THEN MatchXref(t, nd, nd + ns + 1, RunWord(t, nd + ns + 2))
         ELSE MatchTag(t, nd, None, nd + ns + 1, RunWord(t, nd + ns + 1))

\* ^(\d+) followed by \s* where the code has \s+
MatchLevel_OptionalGap(t, nd) ==
    IF nd = 0 THEN None
    ELSE IF RunSpaces(t, nd + 1) = 0
         THEN MatchTag(t, nd, None, nd + 1, RunWord(t, nd + 1))
         ELSE MatchGap(t, nd, RunSpaces(t, nd + 1))

\* ^(\d+)
MatchLevel(t, nd) ==
    IF nd = 0 THEN None ELSE MatchGap(t, nd, RunSpaces(t, nd + 1))

MatchLine(t) == MatchLevel(t, RunDigits(t, 1))

\* the object with the XREF group as matched, where the code trims it
Token_XrefUntrimmed(g) ==
    [level |-> ParseInt(g.level),
     xref  |-> g.xref,
     tag   |-> g.tag,
     value |-> IF IsSome(g.value) /\ Get(g.value) # <<>> THEN Trim(Get(g.value)) ELSE <<>>]

\* the object parseLine returns for the groups g
Token(g) ==
    [level |-> ParseInt(g.level),
     xref  |-> IF IsSome(g.xref) THEN Some(Trim(Get(g.xref))) ELSE None,
     tag   |-> g.tag,
     value |-> IF IsSome(g.value) /\ Get(g.value) # <<>> THEN Trim(Get(g.value)) ELSE <<>>]

TokenOf(m) == IF m = None THEN None ELSE Some(Token(Get(m)))

\* parseLine: None when the line produces no token
parseLine(line) ==
    IF line = <<>> \/ Trim(line) = <<>> THEN None
    ELSE TokenOf(MatchLine(Trim(line)))

\* parseName
parseName(nameValue) ==
    IF nameValue = <<>>
    THEN [full |-> <<>>, given |-> <<>>, surname |-> <<>>, suffix |-> None]
    ELSE LET s1 == IndexOf(nameValue, "/", 1)
             s2 == IF s1 = 0 THEN 0 ELSE IndexOf(nameValue, "/", s1 + 1)
         IN  IF s2 # 0
             THEN [full    |-> Trim(RemoveSlashes(nameValue)),
                   given   |-> Trim(SubSeq(nameValue, 1, s1 - 1)),
                   surname |-> Trim(SubSeq(nameValue, s1 + 1, s2 - 1)),
                   suffix  |-> Some(Trim(SubSeq(nameValue, s2 + 1, Len(nameValue))))]
             ELSE [full |-> Trim(nameValue), given |-> Trim(nameValue),
                   surname |-> <<>>, suffix |-> Some(<<>>)]

----------------------------------------------------------------------------
(* Tags and record types *)

T_HEAD == <<"H", "E", "A", "D">>
T_TRLR == <<"T", "R", "L", "R">>
T_INDI == <<"I", "N", "D", "I">>
T_FAM  == <<"F", "A", "M">>
T_NOTE == <<"N", "O", "T", "E">>
T_SUBM == <<"S", "U", "B", "M">>
T_header == <<"h", "e", "a", "d", "e", "r">>
T_NAME == <<"N", "A", "M", "E">>
T_SEX  == <<"S", "E", "X">>
T_BIRT == <<"B", "I", "R", "T">>
T_DEAT == <<"D", "E", "A", "T">>
T_BAPM == <<"B", "A", "P", "M">>
T_FCOM == <<"F", "C", "O", "M">>
T_GRAD == <<"G", "R", "A", "D">>
T_RESI == <<"R", "E", "S", "I">>
T_DATE == <<"D", "A", "T", "E">>
T_PLAC == <<"P", "L", "A", "C">>
T_ADDR == <<"A", "D", "D", "R">>
T_CITY == <<"C", "I", "T", "Y">>
T_CTRY == <<"C", "T", "R", "Y">>
T_TYPE == <<"T", "Y", "P", "E">>
T_CONT == <<"C", "O", "N", "T">>
T_FAMC == <<"F", "A", "M", "C">>
T_FAMS == <<"F", "A", "M", "S">>
T_OBJE == <<"O", "B", "J", "E">>
T_TITL == <<"T", "I", "T", "L">>
T_CHAN == <<"C", "H", "A", "N">>
T_TIME == <<"T", "I", "M", "E">>
T_HUSB == <<"H", "U", "S", "B">>
T_WIFE == <<"W", "I", "F", "E">>
T_CHIL == <<"C", "H", "I", "L">>
T_MARR == <<"M", "A", "R", "R">>
T_DIV  == <<"D", "I", "V">>
T_NCHI == <<"N", "C", "H", "I">>
T_SOUR == <<"S", "O", "U", "R">>
T_VERS == <<"V", "E", "R", "S">>
T_CORP == <<"C", "O", "R", "P">>
T_DEST == <<"D", "E", "S", "T">>
T_FILE == <<"F", "I", "L", "E">>
T_GEDC == <<"G", "E", "D", "C">>
T_FORM == <<"F", "O", "R", "M">>
T_CHAR == <<"C", "H", "A", "R">>

----------------------------------------------------------------------------
(* Record assembler: objects *)

\* a list property (notes, familiesAsChild, children, ...) is a sequence;
\* the code creates a list only to push onto it, so <<>> is the absent list

\* currentRecord.data = {}
EmptyData ==
    [name |-> None, sex |-> None, birth |-> None, death |-> None,
     baptism |-> None, firstCommunion |-> None, graduations |-> <<>>,
     residences |-> <<>>, objects |-> <<>>, notes |-> <<>>,
     familiesAsChild |-> <<>>, familiesAsSpouse |-> <<>>, changeDate |-> None,
     husband |-> None, wife |-> None, children |-> <<>>, marriage |-> None,
     divorce |-> None, numberOfChildren |-> None, text |-> None]

\* an aliased object: an event, an address, a change date, header.source or
\* header.gedcom; a property the object does not have is None
EmptyObject ==
    [type |-> None, date |-> None, place |-> None, address |-> None,
     eventType |-> None, note |-> None, title |-> None, time |-> None,
     line |-> None, city |-> None, country |-> None, name |-> None,
     version |-> None, corporation |-> None, addressText |-> None,
     gedcom |-> None, form |-> None]

\* what a stack slot holds: the current record, a heap object, or nothing
RecRef == [k |-> "rec", i |-> 0]
ObjRef(i) == [k |-> "obj", i |-> i]
NoRef == [k |-> "none", i |-> 0]

\* this.tree of the constructor
EmptyHeader ==
    [source |-> None, destination |-> None, date |-> None, time |-> None,
     submitter |-> None, file |-> None, gedcom |-> None, encoding |-> None]

EmptyTree ==
    [header |-> EmptyHeader, individuals |-> <<>>, families |-> <<>>,
     notes |-> <<>>, submitters |-> <<>>]

\* Map.prototype.get / has / set (insertion order kept, as a Map keeps it)
MapHas(m, key) == \E j \in 1..Len(m) : m[j].key = key

MapGet(m, key) ==
    IF MapHas(m, key)
    THEN Some((m[CHOOSE j \in 1..Len(m) : m[j].key = key]).val)
    ELSE None

MapSet(m, key, val) ==
    IF MapHas(m, key)
    THEN [j \in 1..Len(m) |-> IF m[j].key = key THEN [key |-> key, val |-> val] ELSE m[j]]
    ELSE Append(m, [key |-> key, val |-> val])

\* stack[j] of the JavaScript array (index from 0; a hole reads undefined)
StackGet(st, j) == IF j >= 0 /\ j < Len(st) THEN st[j + 1] ELSE NoRef

\* stack[j] = ref (the array grows, leaving holes)
StackSet(st, j, ref) ==
    [n \in 1..(IF j + 1 > Len(st) THEN j + 1 ELSE Len(st)) |->
        IF n = j + 1 THEN ref
        ELSE IF n <= Len(st) THEN st[n] ELSE NoRef]

\* x || '' for an optional string
OrEmpty(o) == IF IsSome(o) THEN Get(o) ELSE <<>>

----------------------------------------------------------------------------
(* Record assembler: GedcomParser *)

\* The assembler is the record
\*   [tree, currentRecord, currentEvent, stack, heap, thrown]
\* currentRecord is None or Some([type, id, data, date, time]); thrown says
\* that the handler raised a TypeError.

\* a new object on the heap
Alloc(a, obj) == [a EXCEPT !.heap = Append(a.heap, obj)]
NewIndex(a) == Len(a.heap) + 1

Data(a) == Get(a.currentRecord).data

SetData(a, data) ==
    [a EXCEPT !.currentRecord = Some([Get(a.currentRecord) EXCEPT !.data = data])]

\* an event that is closed and committed nowhere
finalizeEvent_Dropped(a) == [a EXCEPT !.currentEvent = 0]

\* finalizeEvent
finalizeEvent(a) ==
    IF a.currentEvent = 0 THEN a
    ELSE
      LET ev == a.heap[a.currentEvent]
          data == Data(a)
          eventType == ev.type
          plain == [date |-> OrEmpty(ev.date), place |-> OrEmpty(ev.place)]
          noted == [date |-> OrEmpty(ev.date), place |-> OrEmpty(ev.place),
                    note |-> OrEmpty(ev.note)]
          b == CASE eventType = Some(T_BIRT) ->
                      SetData(a, [data EXCEPT !.birth = Some(plain)])
                 [] eventType = Some(T_DEAT) ->
                      SetData(a, [data EXCEPT !.death = Some(plain)])
                 [] eventType = Some(T_BAPM) ->
                      SetData(a, [data EXCEPT !.baptism = Some(noted)])
                 [] eventType = Some(T_FCOM) ->
                      SetData(a, [data EXCEPT !.firstCommunion = Some(noted)])
                 [] eventType = Some(T_GRAD) ->
                      SetData(a, [data EXCEPT !.graduations =
                          Append(@, [type |-> OrEmpty(ev.eventType),
                                     date |-> OrEmpty(ev.date),
                                     place |-> OrEmpty(ev.place),
                                     note |-> OrEmpty(ev.note)])])
                 [] eventType = Some(T_RESI) ->
                      IF IsSome(ev.address)
                      THEN SetData(a, [data EXCEPT !.residences =
                              Append(@, [date |-> OrEmpty(ev.date),
                                         address |-> Get(ev.address)])])
                      ELSE SetData(Alloc(a, [EmptyObject EXCEPT !.line = Some(<<>>)]),
                                   [data EXCEPT !.residences =
                                      Append(@, [date |-> OrEmpty(ev.date),
                                                 address |-> NewIndex(a)])])
                 [] eventType = Some(T_OBJE) ->
                      SetData(a, [data EXCEPT !.objects =
                          Append(@, [title |-> OrEmpty(ev.title)])])
                 [] OTHER -> a
      IN  [b EXCEPT !.currentEvent = 0]

\* finalizeFamilyEvent
finalizeFamilyEvent(a) ==
    IF a.currentEvent = 0 THEN a
    ELSE
      LET ev == a.heap[a.currentEvent]
          data == Data(a)
          plain == [date |-> OrEmpty(ev.date), place |-> OrEmpty(ev.place)]
          b == CASE ev.type = Some(T_MARR) ->
                      SetData(a, [data EXCEPT !.marriage = Some(plain)])
                 [] ev.type = Some(T_DIV) ->
                      SetData(a, [data EXCEPT !.divorce = Some(plain)])
                 [] OTHER -> a
      IN  [b EXCEPT !.currentEvent = 0]

\* finalizeCurrentRecord; the stored object is { id, ...data }
finalizeCurrentRecord(a) ==
    IF a.currentRecord = None THEN a
    ELSE
      LET type == Get(a.currentRecord).type
          id == Get(a.currentRecord).id
          b == CASE type = T_INDI ->
                      LET e == finalizeEvent(a)
                          d == IF Data(e).name = None
                               THEN [Data(e) EXCEPT !.name = Some(parseName(<<>>))]
                               ELSE Data(e)
                      IN  [e EXCEPT !.tree.individuals = MapSet(@, id, d)]
                 [] type = T_FAM ->
                      LET e == finalizeFamilyEvent(a)
                      IN  [e EXCEPT !.tree.families = MapSet(@, id, Data(e))]
                 [] type = T_NOTE ->
                      \* text: data.text || id, then ...data on top of it
                      LET d == IF IsSome(Data(a).text) THEN Data(a)
                               ELSE [Data(a) EXCEPT !.text = Some(id)]
                      IN  [a EXCEPT !.tree.notes = MapSet(@, id, d)]
                 [] type = T_SUBM ->
                      [a EXCEPT !.tree.submitters = MapSet(@, id, Data(a))]
                 [] OTHER -> a
      IN  [b EXCEPT !.currentRecord = None, !.currentEvent = 0, !.stack = <<>>]

\* the new event of BIRT, DEAT, ..., OBJE, MARR, DIV, registered at stack[level]
OpenEvent(a, tag, level) ==
    LET b == Alloc(a, [EmptyObject EXCEPT !.type = Some(tag)])
    IN  [b EXCEPT !.currentEvent = NewIndex(a),
                  !.stack = StackSet(a.stack, level, ObjRef(NewIndex(a)))]

\* data.changeDate = {}; this.stack[level] = data.changeDate
OpenChangeDate(a, level) ==
    LET b == Alloc(a, EmptyObject)
    IN  [SetData(b, [Data(b) EXCEPT !.changeDate = Some(NewIndex(a))])
            EXCEPT !.stack = StackSet(a.stack, level, ObjRef(NewIndex(a)))]

\* parent.date !== undefined
HasDate(a, parent) ==
    \/ parent.k = "obj" /\ IsSome(a.heap[parent.i].date)
    \/ parent.k = "rec" /\ IsSome(Get(a.currentRecord).date)

\* parent.time = value
SetTime(a, parent, value) ==
    IF parent.k = "obj" THEN [a EXCEPT !.heap[parent.i].time = Some(value)]
    ELSE [a EXCEPT !.currentRecord = Some([Get(a.currentRecord) EXCEPT !.time = Some(value)])]

\* case 'TIME' of the INDI, FAM, NOTE and SUBM handlers
TimeTag(a, value, parent) ==
    IF HasDate(a, parent) THEN SetTime(a, parent, value) ELSE a

\* parent.line !== undefined
HasLine(a, parent) == parent.k = "obj" /\ IsSome(a.heap[parent.i].line)

\* value.startsWith('@') && value.endsWith('@')
IsReference(value) == StartsWith(value, "@") /\ EndsWith(value, "@")

NewLine == <<"\n">>

\* lastNote.text += '\n' + value, when the last note has a non-empty text
ContinueLastNote(notes, value) ==
    IF notes # <<>> /\ IsSome(notes[Len(notes)].text) /\ Get(notes[Len(notes)].text) # <<>>
    THEN [notes EXCEPT ![Len(notes)].text = Some(Get(@) \o NewLine \o value)]
    ELSE notes

RefNote(value) == [ref |-> Some(value), text |-> None]
TextNote(value) == [ref |-> None, text |-> Some(value)]

\* processIndividualTag
processIndividualTag(a, tag, value, level, parent) ==
    LET data == Data(a)
        ev == a.currentEvent
    IN
    CASE tag = T_NAME -> SetData(a, [data EXCEPT !.name = Some(parseName(value))])
      [] tag = T_SEX -> SetData(a, [data EXCEPT !.sex = Some(value)])
      [] tag \in {T_BIRT, T_DEAT, T_BAPM, T_FCOM, T_GRAD, T_RESI} ->
            OpenEvent(finalizeEvent(a), tag, level)
      [] tag = T_DATE ->
            IF ev # 0 THEN [a EXCEPT !.heap[ev].date = Some(value)] ELSE a
      [] tag = T_PLAC ->
            IF ev # 0 THEN [a EXCEPT !.heap[ev].place = Some(value)] ELSE a
      [] tag = T_ADDR ->
            IF ev # 0
            THEN LET b == Alloc(a, [EmptyObject EXCEPT !.line = Some(value)])
                 IN  [b EXCEPT !.heap[ev].address = Some(NewIndex(a)),
                               !.stack = StackSet(a.stack, level, ObjRef(NewIndex(a)))]
            \* this.currentEvent.address of null: TypeError
            ELSE [a EXCEPT !.thrown = TRUE]
      [] tag = T_CITY ->
            IF HasLine(a, parent) THEN [a EXCEPT !.heap[parent.i].city = Some(value)] ELSE a
      [] tag = T_CTRY ->
            IF HasLine(a, parent) THEN [a EXCEPT !.heap[parent.i].country = Some(value)] ELSE a
      [] tag = T_TYPE ->
            IF ev # 0 THEN [a EXCEPT !.heap[ev].eventType = Some(value)] ELSE a
      [] tag = T_NOTE ->
            IF IsReference(value)
            THEN SetData(a, [data EXCEPT !.notes = Append(@, RefNote(value))])
            ELSE IF ev # 0 THEN [a EXCEPT !.heap[ev].note = Some(value)]
            ELSE SetData(a, [data EXCEPT !.notes = Append(@, TextNote(value))])
      [] tag = T_CONT ->
            IF ev # 0 /\ IsSome(a.heap[ev].note) /\ Get(a.heap[ev].note) # <<>>
            THEN [a EXCEPT !.heap[ev].note = Some(Get(@) \o NewLine \o value)]
            ELSE SetData(a, [data EXCEPT !.notes = ContinueLastNote(@, value)])
      [] tag = T_FAMC ->
            LET b == finalizeEvent(a)
            IN  SetData(b, [Data(b) EXCEPT !.familiesAsChild = Append(@, value)])
      [] tag = T_FAMS ->
            LET b == finalizeEvent(a)
            IN  SetData(b, [Data(b) EXCEPT !.familiesAsSpouse = Append(@, value)])
      [] tag = T_OBJE -> OpenEvent(finalizeEvent(a), tag, level)
      [] tag = T_TITL ->
            IF ev # 0 /\ a.heap[ev].type = Some(T_OBJE)
            THEN [a EXCEPT !.heap[ev].title = Some(value)] ELSE a
      [] tag = T_CHAN -> OpenChangeDate(finalizeEvent(a), level)
      [] tag = T_TIME -> TimeTag(a, value, parent)
      [] OTHER -> a

\* parseInt(value, 10) || 0: an optional sign, then the leading digits; NaN
\* (no digit) gives 0
ParseIntOrZero(value) ==
    LET signed == StartsWith(value, "-") \/ StartsWith(value, "+")
        from == IF signed THEN 2 ELSE 1
        n == ParseInt(SubSeq(value, from, from + RunDigits(value, from) - 1))
    IN  IF StartsWith(value, "-") THEN 0 - n ELSE n

\* processFamilyTag
processFamilyTag(a, tag, value, level, parent) ==
    LET data == Data(a)
        ev == a.currentEvent
    IN
    CASE tag = T_HUSB -> SetData(a, [data EXCEPT !.husband = Some(value)])
      [] tag = T_WIFE -> SetData(a, [data EXCEPT !.wife = Some(value)])
      [] tag = T_CHIL -> SetData(a, [data EXCEPT !.children = Append(@, value)])
      [] tag \in {T_MARR, T_DIV} -> OpenEvent(finalizeFamilyEvent(a), tag, level)
      [] tag = T_DATE ->
            IF ev # 0 THEN [a EXCEPT !.heap[ev].date = Some(value)] ELSE a
      [] tag = T_PLAC ->
            IF ev # 0 THEN [a EXCEPT !.heap[ev].place = Some(value)] ELSE a
      [] tag = T_NCHI ->
            SetData(a, [data EXCEPT !.numberOfChildren = Some(ParseIntOrZero(value))])
      [] tag = T_NOTE ->
            IF IsReference(value)
            THEN SetData(a, [data EXCEPT !.notes = Append(@, RefNote(value))])
            ELSE SetData(a, [data EXCEPT !.notes = Append(@, TextNote(value))])
      [] tag = T_CONT -> SetData(a, [data EXCEPT !.notes = ContinueLastNote(@, value)])
      [] tag = T_CHAN -> OpenChangeDate(finalizeFamilyEvent(a), level)
      [] tag = T_TIME -> TimeTag(a, value, parent)
      [] OTHER -> a

\* case 'DATE' of the NOTE and SUBM handlers: parent is never the data
\* object, so every parent receives the date
DateOnParent(a, value, parent) ==
    IF parent.k = "obj" THEN [a EXCEPT !.heap[parent.i].date = Some(value)]
    ELSE [a EXCEPT !.currentRecord = Some([Get(a.currentRecord) EXCEPT !.date = Some(value)])]

\* data.changeDate = {}; this.stack[level] = data.changeDate (no event to commit)
processNoteTag(a, tag, value, level, parent) ==
    CASE tag = T_CONT ->
            SetData(a, [Data(a) EXCEPT !.text = Some(OrEmpty(@) \o NewLine \o value)])
      [] tag = T_CHAN -> OpenChangeDate(a, level)
      [] tag = T_DATE -> DateOnParent(a, value, parent)
      [] tag = T_TIME -> TimeTag(a, value, parent)
      [] OTHER -> a

\* processSubmitterTag
processSubmitterTag(a, tag, value, level, parent) ==
    CASE tag = T_NAME -> SetData(a, [Data(a) EXCEPT !.name = Some(value)])
      [] tag = T_CHAN -> OpenChangeDate(a, level)
      [] tag = T_DATE -> DateOnParent(a, value, parent)
      [] tag = T_TIME -> TimeTag(a, value, parent)
      [] OTHER -> a

\* parent.name !== undefined: only header.source objects carry a name
HasName(a, parent) == parent.k = "obj" /\ IsSome(a.heap[parent.i].name)

\* parent.gedcom !== undefined: header.gedcom is a property of tree.header,
\* which is no parent; no object of the stack is given a gedcom property
HasGedcom(a, parent) == parent.k = "obj" /\ IsSome(a.heap[parent.i].gedcom)

\* processHeaderTag
processHeaderTag(a, tag, value, level, parent) ==
    CASE tag = T_SOUR ->
            LET b == Alloc(a, [EmptyObject EXCEPT !.name = Some(value)])
            IN  [b EXCEPT !.tree.header.source = Some(NewIndex(a)),
                          !.stack = StackSet(a.stack, level, ObjRef(NewIndex(a)))]
      [] tag = T_VERS ->
            IF HasName(a, parent) THEN [a EXCEPT !.heap[parent.i].version = Some(value)]
            ELSE IF HasGedcom(a, parent)
                 THEN [a EXCEPT !.heap[Get(a.heap[parent.i].gedcom)].version = Some(value)]
            ELSE a
      [] tag = T_NAME ->
            IF HasName(a, parent) THEN [a EXCEPT !.heap[parent.i].name = Some(value)] ELSE a
      [] tag = T_CORP ->
            IF HasName(a, parent) THEN [a EXCEPT !.heap[parent.i].corporation = Some(value)] ELSE a
      [] tag = T_ADDR ->
            IF HasName(a, parent) THEN [a EXCEPT !.heap[parent.i].addressText = Some(value)] ELSE a
      [] tag = T_DEST -> [a EXCEPT !.tree.header.destination = Some(value)]
      [] tag = T_DATE ->
            IF parent.k = "rec" THEN [a EXCEPT !.tree.header.date = Some(value)] ELSE a
      [] tag = T_TIME -> [a EXCEPT !.tree.header.time = Some(value)]
      [] tag = T_SUBM -> [a EXCEPT !.tree.header.submitter = Some(value)]
      [] tag = T_FILE -> [a EXCEPT !.tree.header.file = Some(value)]
      [] tag = T_GEDC ->
            LET b == Alloc(a, EmptyObject)
            IN  [b EXCEPT !.tree.header.gedcom = Some(NewIndex(a)),
                          !.stack = StackSet(a.stack, level, ObjRef(NewIndex(a)))]
      [] tag = T_FORM ->
            IF HasGedcom(a, parent)
            THEN [a EXCEPT !.heap[Get(a.heap[parent.i].gedcom)].form = Some(value)]
            ELSE a
      [] tag = T_CHAR -> [a EXCEPT !.tree.header.encoding = Some(value)]
      [] OTHER -> a

\* { type, id, data: {} }
NewRecord(type, id) ==
    Some([type |-> type, id |-> id, data |-> EmptyData, date |-> None, time |-> None])

\* processLine
processLine(a, line) ==
    LET level == line.level
        tag == line.tag
        value == line.value
    IN
    IF level = 0 THEN
        LET b == finalizeCurrentRecord(a)
            c == IF tag = T_HEAD THEN [b EXCEPT !.currentRecord = NewRecord(T_header, <<>>)]
                 ELSE IF IsSome(line.xref)
                      THEN [b EXCEPT !.currentRecord = NewRecord(tag, Get(line.xref))]
                 ELSE IF tag = T_SUBM
                      THEN [b EXCEPT !.currentRecord = NewRecord(T_SUBM, value)]
                 ELSE b
        IN  IF tag = T_TRLR THEN finalizeCurrentRecord(b)
            ELSE [c EXCEPT !.stack = <<IF c.currentRecord = None THEN NoRef ELSE RecRef>>]
    ELSE IF a.currentRecord = None THEN a
    ELSE LET parent == StackGet(a.stack, level - 1)
             type == Get(a.currentRecord).type
         IN  IF parent.k = "none" THEN a
             ELSE CASE type = T_INDI -> processIndividualTag(a, tag, value, level, parent)
                    [] type = T_FAM -> processFamilyTag(a, tag, value, level, parent)
                    [] type = T_NOTE -> processNoteTag(a, tag, value, level, parent)
                    [] type = T_header -> processHeaderTag(a, tag, value, level, parent)
                    [] type = T_SUBM -> processSubmitterTag(a, tag, value, level, parent)
                    [] OTHER -> a

----------------------------------------------------------------------------
(* parse(): the line loop *)

\* the longest file the model reads
MaxLines == 4

\* the text of a line, from its words
SP == <<" ">>
X_I1 == <<"@", "I", "1", "@">>
X_F1 == <<"@", "F", "1", "@">>
Line2(level, tag) == level \o SP \o tag
Line3(level, x, y) == level \o SP \o x \o SP \o y

\* an unrecognised level-1 tag
T_BURI == <<"B", "U", "R", "I">>

L_INDI == Line3(<<"0">>, X_I1, T_INDI)
L_FAM  == Line3(<<"0">>, X_F1, T_FAM)
L_TRLR == Line2(<<"0">>, T_TRLR)
L_BIRT == Line2(<<"1">>, T_BIRT)
L_MARR == Line2(<<"1">>, T_MARR)
L_DATE == Line3(<<"2">>, T_DATE, <<"x">>)
L_PLAC == Line3(<<"2">>, T_PLAC, <<"y">>)
L_BURI == Line2(<<"1">>, T_BURI)
L_ADDR == Line3(<<"1">>, T_ADDR, <<"x">>)
L_BLANK == <<" ">>
\* an XREF with a non-word character, and a level glued to its tag
L_BADXREF == Line3(<<"0">>, <<"@", "I", "-", "1", "@">>, T_INDI)
L_GLUED == <<"1">> \o T_BIRT

\* the lines a file of the model is made of
FileLines ==
    {L_INDI, L_FAM, L_TRLR, L_BIRT, L_MARR, L_DATE, L_PLAC, L_BURI, L_ADDR,
     <<>>, L_BLANK, L_BADXREF, L_GLUED}

\* the assembler, as the handlers take it
Assembler ==
    [tree |-> tree, currentRecord |-> currentRecord, currentEvent |-> currentEvent,
     stack |-> stack, heap |-> heap, thrown |-> FALSE]

asmVars == <<tree, currentRecord, currentEvent, stack, heap>>

\* new GedcomShellNavigator(): no file loaded, no component built; the
\* module variable of dateParser.js starts null
NoShell ==
    /\ fictionalDateContext = <<>>
    /\ disk = <<>>
    /\ models = <<>>
    /\ app = [tree |-> 0]
    /\ navigator = <<>>
    /\ formatter = <<>>

\* no Tree query was called yet
NoQuery == [name |-> "none", id |-> <<>>, depth |-> 0]

\* new GedcomParser(), before the first line
Init ==
    /\ pc = "loop"
    /\ lines = <<>>
    /\ tree = EmptyTree
    /\ currentRecord = None
    /\ currentEvent = 0
    /\ stack = <<>>
    /\ heap = <<>>
    /\ query = NoQuery
    /\ result = <<>>
    /\ frames = <<>>
    /\ out = <<>>
    /\ visited = {}
    /\ NoShell

\* one turn of the loop on a line that gives no token: continue
SkipLine(raw) ==
    /\ pc = "loop"
    /\ Len(lines) < MaxLines
    /\ parseLine(raw) = None
    /\ lines' = Append(lines, raw)
    /\ UNCHANGED <<pc, tree, currentRecord, currentEvent, stack, heap>>
    /\ UNCHANGED <<queryVars, walkVars, shellVars>>

\* one turn of the loop on a tokenized line: processLine; a TypeError raised
\* by the handler leaves parse()
ReadLine(raw) ==
    /\ pc = "loop"
    /\ Len(lines) < MaxLines
    /\ parseLine(raw) # None
    /\ LET a == processLine(Assembler, Get(parseLine(raw)))
       IN  /\ lines' = Append(lines, raw)
           /\ pc' = IF a.thrown THEN "thrown" ELSE "loop"
           /\ tree' = a.tree
           /\ currentRecord' = a.currentRecord
           /\ currentEvent' = a.currentEvent
           /\ stack' = a.stack
           /\ heap' = a.heap
    /\ UNCHANGED <<queryVars, walkVars, shellVars>>

\* the end of the file: return this.tree
EndOfInput ==
    /\ pc = "loop"
    /\ pc' = "returned"
    /\ UNCHANGED <<lines, tree, currentRecord, currentEvent, stack, heap>>
    /\ UNCHANGED <<queryVars, walkVars, shellVars>>

Next ==
    \/ \E raw \in FileLines : SkipLine(raw)
    \/ \E raw \in FileLines : ReadLine(raw)
    \/ EndOfInput

Spec == Init /\ [][Next]_vars

----------------------------------------------------------------------------
(* What a read of the model sees *)

\* the tags the INDI and FAM handlers have a case for
IndividualTags ==
    {T_NAME, T_SEX, T_BIRT, T_DEAT, T_BAPM, T_FCOM, T_GRAD, T_RESI, T_DATE,
     T_PLAC, T_ADDR, T_CITY, T_CTRY, T_TYPE, T_NOTE, T_CONT, T_FAMC, T_FAMS,
     T_OBJE, T_TITL, T_CHAN, T_TIME}

FamilyTags ==
    {T_HUSB, T_WIFE, T_CHIL, T_MARR, T_DIV, T_DATE, T_PLAC, T_NCHI, T_NOTE,
     T_CONT, T_CHAN, T_TIME}

\* the map of the tree a record of this type is stored in
MapOf(tr, type) ==
    CASE type = T_INDI -> tr.individuals
      [] type = T_FAM -> tr.families
      [] type = T_NOTE -> tr.notes
      [] type = T_SUBM -> tr.submitters
      [] OTHER -> <<>>

StoredTypes == {T_INDI, T_FAM, T_NOTE, T_SUBM}

\* a stored record as a reader sees it: the objects it references, by value
View(h, d) ==
    [d EXCEPT !.changeDate = IF IsSome(@) THEN Some(h[Get(@)]) ELSE None,
              !.residences = [k \in DOMAIN @ |->
                                 [date |-> @[k].date, address |-> h[@[k].address]]]]

\* the entry stored under a key, by value
Stored(tr, h, type, id) ==
    IF MapHas(MapOf(tr, type), id)
    THEN Some(View(h, Get(MapGet(MapOf(tr, type), id))))
    ELSE None

\* the record the open record is finalized to, were it finalized now
FinalizedOf(a) ==
    IF a.currentRecord = None THEN None
    ELSE LET f == finalizeCurrentRecord(a)
         IN  Stored(f.tree, f.heap, Get(a.currentRecord).type, Get(a.currentRecord).id)

FinalizedRecord == FinalizedOf(Assembler)

\* the token of line k of the file, None when the line gives none
Tok(ls, k) == parseLine(ls[k])

----------------------------------------------------------------------------
(* Claims about the record assembler *)

\* line k of the file is a level-1 line whose tag the handler of a record of
\* this type has no case for, or a sub-line (level 2 and deeper) of such a line
UnderUnknownTag(ls, k, type) ==
    /\ Tok(ls, k) # None
    /\ \E j \in 1..k :
          /\ Tok(ls, j) # None
          /\ Get(Tok(ls, j)).level = 1
          /\ Get(Tok(ls, j)).tag \notin
                (IF type = T_INDI THEN IndividualTags ELSE FamilyTags)
          /\ \A m \in (j + 1)..k : Tok(ls, m) # None => Get(Tok(ls, m)).level >= 2

\* C1: unknown tags are ignored: a line that is an unrecognised level-1 tag of
\* an INDI or FAM record, or one of its sub-lines, leaves the record as it
\* will be finalized unchanged (so the record is the one of the input without
\* these lines)
C1_UnknownTagsIgnored ==
    [][(/\ IsSome(currentRecord)
        /\ Get(currentRecord).type \in {T_INDI, T_FAM}
        /\ lines' # lines
        /\ UnderUnknownTag(lines', Len(lines'), Get(currentRecord).type))
       => FinalizedRecord' = FinalizedRecord]_vars

\* C2: end of input finalizes the last open record: when parse has returned,
\* the record that was open at the last line is stored in the map of its type,
\* as it is finalized with its pending event
C2_EndOfInputFinalizes ==
    (/\ pc = "returned"
     /\ IsSome(currentRecord)
     /\ Get(currentRecord).type \in StoredTypes)
    => Stored(tree, heap, Get(currentRecord).type, Get(currentRecord).id) = FinalizedRecord

\* C3: the record assembler never throws for malformed content: processLine
\* completes for every tokenized line in every assembler state
C3_NeverThrows == pc # "thrown"

\* C4: an existing id is never overwritten with a different record: an entry
\* stored under an identifier stays the entry stored under it
C4_NeverOverwrites ==
    [][\A type \in StoredTypes :
         \A j \in 1..Len(MapOf(tree, type)) :
            Stored(tree', heap', type, MapOf(tree, type)[j].key)
               = Stored(tree, heap, type, MapOf(tree, type)[j].key)]_vars

IsTrailer(tok) == tok # None /\ Get(tok).level = 0 /\ Get(tok).tag = T_TRLR

SeenTrailer(ls) == \E k \in 1..Len(ls) : IsTrailer(Tok(ls, k))

Maps(tr) == <<tr.individuals, tr.families, tr.notes, tr.submitters>>

\* C5: 0 TRLR finalizes and stops: the line commits the open record, and no
\* line after it opens a record or changes a map of the model
C5_TrailerStops ==
    [][/\ (lines' # lines /\ IsTrailer(Tok(lines', Len(lines'))))
            => /\ currentRecord' = None
               /\ (IsSome(currentRecord) /\ Get(currentRecord).type \in StoredTypes)
                    => Stored(tree', heap', Get(currentRecord).type, Get(currentRecord).id)
                          = FinalizedRecord
       /\ SeenTrailer(lines)
            => (Maps(tree') = Maps(tree) /\ currentRecord' = None)]_vars

\* The grammar LEVEL [XREF] TAG [VALUE] of the tokenizer's regular expression,
\* stated over every way of splitting the trimmed line
AllDigits(s, from, to) == \A k \in from..to : IsDigit(s[k])
AllSpaces(s, from, to) == \A k \in from..to : IsSpace(s[k])
AllWord(s, from, to) == \A k \in from..to : IsWord(s[k])

\* TAG [VALUE] from position q: a word, then the end or a blank
TagFrom(t, q) ==
    \E r \in q..Len(t) :
        /\ AllWord(t, q, r)
        /\ (r = Len(t) \/ IsSpace(t[r + 1]))

\* @ word @ blanks, then TAG [VALUE]
XrefFrom(t, p) ==
    \E e \in (p + 2)..Len(t) : \E g \in (e + 1)..Len(t) :
        /\ t[p] = "@" /\ t[e] = "@"
        /\ AllWord(t, p + 1, e - 1)
        /\ AllSpaces(t, e + 1, g)
        /\ TagFrom(t, g + 1)

InGrammar(t) ==
    \E d \in 1..Len(t) : \E s \in (d + 1)..Len(t) :
        /\ AllDigits(t, 1, d)
        /\ AllSpaces(t, d + 1, s)
        /\ (TagFrom(t, s + 1) \/ XrefFrom(t, s + 1))

\* C6: a blank line, or a line that fails the grammar, is skipped: reading it
\* leaves the model, the current record, the current event and the stack
\* unchanged, and the loop goes on with the next line
C6_BadLineSkipped ==
    [][(lines' # lines /\ ~InGrammar(Trim(lines'[Len(lines')])))
       => (UNCHANGED asmVars /\ pc' = "loop")]_vars

\* a line outside the grammar was read while a record was open, and the loop
\* went on to a later line
C6_Witness ==
    /\ pc = "loop"
    /\ Len(lines) >= 3
    /\ Tok(lines, 1) # None
    /\ ~InGrammar(Trim(lines[2])) /\ Trim(lines[2]) # <<>>
    /\ IsSome(currentRecord)
    /\ currentEvent # 0

----------------------------------------------------------------------------
(* Graph model: Tree *)

\* A Tree holds the maps of the parsed data. A looked-up individual, family
\* or note is its map entry [key, val]; the key is the id of the object.

\* Map.get that returns the entry, None for undefined
Entry(m, key) ==
    IF MapHas(m, key) THEN Some(m[CHOOSE j \in 1..Len(m) : m[j].key = key]) ELSE None

getIndividual(tr, id) == Entry(tr.individuals, id)
getFamily(tr, id) == Entry(tr.families, id)
getNote(tr, id) == Entry(tr.notes, id)

\* a husband, wife: a non-empty string
Truthy(ref) == IsSome(ref) /\ Get(ref) # <<>>

\* visited is None (null) or Some(set of ids): !visited || !visited.has(id)
NotVisited(vis, id) == vis = None \/ id \notin Get(vis)

\* the same without the test that the parent exists
ParentEntry_NoPresenceCheck(tr, ref, relation, vis) ==
    IF ~Truthy(ref) THEN <<>>
    ELSE IF getIndividual(tr, Get(ref)) = None \/ NotVisited(vis, Get(ref))
         THEN <<[relation |-> relation, individual |-> getIndividual(tr, Get(ref))]>>
         ELSE <<>>

\* the father or mother a family contributes to getParents
ParentEntry(tr, ref, relation, vis) ==
    IF ~Truthy(ref) THEN <<>>
    ELSE IF getIndividual(tr, Get(ref)) # None
            /\ NotVisited(vis, Get(getIndividual(tr, Get(ref))).key)
         THEN <<[relation |-> relation, individual |-> getIndividual(tr, Get(ref))]>>
         ELSE <<>>

\* the body of the loop of getParents for one family id
FamilyParents(tr, familyId, vis) ==
    IF getFamily(tr, familyId) = None THEN <<>>
    ELSE ParentEntry(tr, Get(getFamily(tr, familyId)).val.husband, "father", vis)
         \o ParentEntry(tr, Get(getFamily(tr, familyId)).val.wife, "mother", vis)

RECURSIVE ParentsFrom(_, _, _, _)
ParentsFrom(tr, fams, k, vis) ==
    IF k > Len(fams) THEN <<>>
    ELSE FamilyParents(tr, fams[k], vis) \o ParentsFrom(tr, fams, k + 1, vis)

\* getParents
getParents(tr, individualId, vis) ==
    IF getIndividual(tr, individualId) = None THEN <<>>
    ELSE ParentsFrom(tr, Get(getIndividual(tr, individualId)).val.familiesAsChild, 1, vis)

\* the children of a list of child ids that exist and are not visited
RECURSIVE ChildrenOf(_, _, _, _)
ChildrenOf(tr, ids, k, vis) ==
    IF k > Len(ids) THEN <<>>
    ELSE (IF getIndividual(tr, ids[k]) # None
             /\ NotVisited(vis, Get(getIndividual(tr, ids[k])).key)
          THEN <<getIndividual(tr, ids[k])>> ELSE <<>>)
         \o ChildrenOf(tr, ids, k + 1, vis)

RECURSIVE ChildrenFrom(_, _, _, _)
ChildrenFrom(tr, fams, k, vis) ==
    IF k > Len(fams) THEN <<>>
    ELSE (IF getFamily(tr, fams[k]) # None
          THEN ChildrenOf(tr, Get(getFamily(tr, fams[k])).val.children, 1, vis)
          ELSE <<>>)
         \o ChildrenFrom(tr, fams, k + 1, vis)

\* getChildren
getChildren(tr, individualId, vis) ==
    IF getIndividual(tr, individualId) = None THEN <<>>
    ELSE ChildrenFrom(tr, Get(getIndividual(tr, individualId)).val.familiesAsSpouse, 1, vis)

\* the spouse a family contributes to getSpouses
FamilySpouse(tr, familyId, individualId) ==
    LET family == getFamily(tr, familyId)
    IN  IF family = None THEN <<>>
        ELSE IF Get(family).val.husband = Some(individualId) /\ Truthy(Get(family).val.wife)
             THEN IF getIndividual(tr, Get(Get(family).val.wife)) # None
                  THEN <<[family |-> familyId,
                          individual |-> getIndividual(tr, Get(Get(family).val.wife))]>>
                  ELSE <<>>
        ELSE IF Get(family).val.wife = Some(individualId) /\ Truthy(Get(family).val.husband)
             THEN IF getIndividual(tr, Get(Get(family).val.husband)) # None
                  THEN <<[family |-> familyId,
                          individual |-> getIndividual(tr, Get(Get(family).val.husband))]>>
                  ELSE <<>>
        ELSE <<>>

RECURSIVE SpousesFrom(_, _, _, _)
SpousesFrom(tr, fams, k, individualId) ==
    IF k > Len(fams) THEN <<>>
    ELSE FamilySpouse(tr, fams[k], individualId) \o SpousesFrom(tr, fams, k + 1, individualId)

\* getSpouses
getSpouses(tr, individualId) ==
    IF getIndividual(tr, individualId) = None THEN <<>>
    ELSE SpousesFrom(tr, Get(getIndividual(tr, individualId)).val.familiesAsSpouse, 1,
                     individualId)

\* the siblings among a list of child ids
RECURSIVE SiblingsOf(_, _, _, _)
SiblingsOf(tr, ids, k, individualId) ==
    IF k > Len(ids) THEN <<>>
    ELSE (IF ids[k] # individualId /\ getIndividual(tr, ids[k]) # None
          THEN <<getIndividual(tr, ids[k])>> ELSE <<>>)
         \o SiblingsOf(tr, ids, k + 1, individualId)

RECURSIVE SiblingsFrom(_, _, _, _)
SiblingsFrom(tr, fams, k, individualId) ==
    IF k > Len(fams) THEN <<>>
    ELSE (IF getFamily(tr, fams[k]) # None
          THEN SiblingsOf(tr, Get(getFamily(tr, fams[k])).val.children, 1, individualId)
          ELSE <<>>)
         \o SiblingsFrom(tr, fams, k + 1, individualId)

\* getSiblings
getSiblings(tr, individualId) ==
    IF getIndividual(tr, individualId) = None THEN <<>>
    ELSE SiblingsFrom(tr, Get(getIndividual(tr, individualId)).val.familiesAsChild, 1,
                      individualId)

\* roots: the individuals without a FAMC line
RECURSIVE RootsFrom_FamcOnly(_, _)
RootsFrom_FamcOnly(tr, k) ==
    IF k > Len(tr.individuals) THEN <<>>
    ELSE (IF tr.individuals[k].val.familiesAsChild = <<>>
          THEN <<Some(tr.individuals[k])>> ELSE <<>>)
         \o RootsFrom_FamcOnly(tr, k + 1)

\* the loop of getRootIndividuals from the k-th individual of the map
RECURSIVE RootsFrom(_, _)
RootsFrom(tr, k) ==
    IF k > Len(tr.individuals) THEN <<>>
    ELSE (IF Len(getParents(tr, tr.individuals[k].key, None)) > 0
          THEN <<>> ELSE <<Some(tr.individuals[k])>>)
         \o RootsFrom(tr, k + 1)

\* getRootIndividuals
getRootIndividuals(tr) == RootsFrom(tr, 1)

----------------------------------------------------------------------------
(* Loaded trees: the files whose parse gives the Tree of a query *)

\* parse(): every line of the file through the loop, from a new parser
\* one turn of the loop: a line without a token is skipped
Feed(a, parsed) == IF parsed = None THEN a ELSE processLine(a, Get(parsed))

RECURSIVE ParseFrom(_, _, _)
ParseFrom(a, file, k) ==
    IF k > Len(file) \/ a.thrown THEN a
    ELSE ParseFrom(Feed(a, parseLine(file[k])), file, k + 1)

NewParser ==
    [tree |-> EmptyTree, currentRecord |-> None, currentEvent |-> 0,
     stack |-> <<>>, heap |-> <<>>, thrown |-> FALSE]

parse(file) == ParseFrom(NewParser, file, 1)

\* the most link lines (FAMC, FAMS, HUSB, WIFE, CHIL) of a file of a queried
\* tree, and of a file of a traversed tree
MaxLinks == 3
MaxWalkLinks == 4

\* the ids: I1, I2, F1, F2 and N1 have a record in the file, I3, F3 and N2
\* have none
X_I2 == <<"@", "I", "2", "@">>
X_I3 == <<"@", "I", "3", "@">>
X_F2 == <<"@", "F", "2", "@">>
X_F3 == <<"@", "F", "3", "@">>
X_N1 == <<"@", "N", "1", "@">>
X_N2 == <<"@", "N", "2", "@">>

IndividualIds == {X_I1, X_I2, X_I3}
FamilyIds == {X_F1, X_F2, X_F3}
NoteIds == {X_N1, X_N2}

\* a link line "1 TAG @to@" of the record rec
Link(rec, tag, to) == [rec |-> rec, tag |-> tag, to |-> to]
LinkLine(l) == Line3(<<"1">>, l.tag, l.to)

AncestorLinks ==
    {Link(i, T_FAMC, f) : i \in {X_I1, X_I2}, f \in FamilyIds}
    \cup {Link(f, tag, i) : f \in {X_F1, X_F2}, tag \in {T_HUSB, T_WIFE}, i \in IndividualIds}

DescendantLinks ==
    {Link(i, T_FAMS, f) : i \in {X_I1, X_I2}, f \in FamilyIds}
    \cup {Link(f, T_CHIL, i) : f \in {X_F1, X_F2}, i \in IndividualIds}

\* the records of a file, in the order the file has them
RecordOrder == <<X_I1, X_I2, X_F1, X_F2>>
Rank(rec) == CHOOSE k \in 1..Len(RecordOrder) : RecordOrder[k] = rec

\* the link lines of a file, record by record, at most n of them
LinkSeqs(links, n) ==
    {ls \in UNION {[1..k -> links] : k \in 0..n} :
        \A k \in 1..(Len(ls) - 1) : Rank(ls[k].rec) <= Rank(ls[k + 1].rec)}

\* the lines of the record rec: its opening line, then its link lines
RECURSIVE LinkLinesOf(_, _, _)
LinkLinesOf(ls, rec, k) ==
    IF k > Len(ls) THEN <<>>
    ELSE (IF ls[k].rec = rec THEN <<LinkLine(ls[k])>> ELSE <<>>)
         \o LinkLinesOf(ls, rec, k + 1)

RecordLines(ls, rec, type) == <<Line3(<<"0">>, rec, type)>> \o LinkLinesOf(ls, rec, 1)

FileOf(ls) ==
    RecordLines(ls, X_I1, T_INDI) \o RecordLines(ls, X_I2, T_INDI)
    \o RecordLines(ls, X_F1, T_FAM) \o RecordLines(ls, X_F2, T_FAM)
    \o <<Line3(<<"0">>, X_N1, T_NOTE), L_TRLR>>

\* the trees index.js hands to new Tree(): the parse of the files
TreesOf(links, n) == {parse(FileOf(ls)).tree : ls \in LinkSeqs(links, n)}

AllLinks == AncestorLinks \cup DescendantLinks

----------------------------------------------------------------------------
(* Queries of a loaded tree *)

\* parse() has returned the tree of a file
Loaded(links, n) ==
    /\ pc = "returned"
    /\ lines = <<>>
    /\ tree \in TreesOf(links, n)
    /\ currentRecord = None
    /\ currentEvent = 0
    /\ stack = <<>>
    /\ heap = <<>>

InitTree ==
    /\ Loaded(AllLinks, MaxLinks)
    /\ query = NoQuery
    /\ result = <<>>
    /\ frames = <<>>
    /\ out = <<>>
    /\ visited = {}
    /\ NoShell

\* a call of a query method on the loaded tree: the call and what it returns
Call(name, id, returned) ==
    /\ query = NoQuery
    /\ query' = [name |-> name, id |-> id, depth |-> 0]
    /\ result' = returned
    /\ UNCHANGED <<parseVars, walkVars, shellVars>>

GetIndividual(id) == Call("getIndividual", id, getIndividual(tree, id))
GetFamily(id) == Call("getFamily", id, getFamily(tree, id))
GetNote(id) == Call("getNote", id, getNote(tree, id))
GetParents(id) == Call("getParents", id, getParents(tree, id, None))
GetChildren(id) == Call("getChildren", id, getChildren(tree, id, None))
GetSpouses(id) == Call("getSpouses", id, getSpouses(tree, id))
GetSiblings(id) == Call("getSiblings", id, getSiblings(tree, id))
GetRootIndividuals == Call("getRootIndividuals", <<>>, getRootIndividuals(tree))

NextTree ==
    \/ \E id \in IndividualIds : GetIndividual(id)
    \/ \E id \in FamilyIds : GetFamily(id)
    \/ \E id \in NoteIds : GetNote(id)
    \/ \E id \in IndividualIds : GetParents(id)
    \/ \E id \in IndividualIds : GetChildren(id)
    \/ \E id \in IndividualIds : GetSpouses(id)
    \/ \E id \in IndividualIds : GetSiblings(id)
    \/ GetRootIndividuals

SpecTree == InitTree /\ [][NextTree]_vars

\* the individuals of the model, as a lookup returns them
Individuals(tr) == {Some(tr.individuals[k]) : k \in 1..Len(tr.individuals)}

\* the individuals of a returned list: getParents and getSpouses return
\* objects that hold one, the other queries return the individuals themselves
Listed(name, list) ==
    IF name \in {"getParents", "getSpouses"}
    THEN {list[k].individual : k \in 1..Len(list)}
    ELSE {list[k] : k \in 1..Len(list)}

ListQueries == {"getParents", "getChildren", "getSpouses", "getSiblings", "getRootIndividuals"}

\* the map a lookup reads
LookupMap(tr, name) ==
    CASE name = "getIndividual" -> tr.individuals
      [] name = "getFamily" -> tr.families
      [] name = "getNote" -> tr.notes

\* C7: whatever the links of the loaded file name, a lookup of an id without
\* a record returns not-found and a lookup of an id with a record returns
\* that record, and every list query returns individuals of the model only
C7_DanglingTolerated ==
    /\ query.name \in {"getIndividual", "getFamily", "getNote"} =>
          IF MapHas(LookupMap(tree, query.name), query.id)
          THEN IsSome(result) /\ Get(result).key = query.id
          ELSE result = None
    /\ query.name \in ListQueries => Listed(query.name, result) \subseteq Individuals(tree)

\* a family of the file names a missing father and a present mother, and
\* getParents of its child returned the mother alone
C7_Witness ==
    /\ query = [name |-> "getParents", id |-> X_I1, depth |-> 0]
    /\ Get(getIndividual(tree, X_I1)).val.familiesAsChild = <<X_F1>>
    /\ Get(getFamily(tree, X_F1)).val.husband = Some(X_I3)
    /\ Get(getFamily(tree, X_F1)).val.wife = Some(X_I2)
    /\ result = <<[relation |-> "mother", individual |-> getIndividual(tree, X_I2)]>>

\* an individual has a parent that resolves: one of its FAMC families has a
\* record whose husband or wife has a record
Resolves(tr, ref) == IsSome(ref) /\ MapHas(tr.individuals, Get(ref))

HasResolvableParent(tr, person) ==
    \E k \in 1..Len(person.val.familiesAsChild) :
        \E j \in 1..Len(tr.families) :
            /\ tr.families[j].key = person.val.familiesAsChild[k]
            /\ \/ Resolves(tr, tr.families[j].val.husband)
               \/ Resolves(tr, tr.families[j].val.wife)

\* C10: getRootIndividuals returns each individual without a resolvable
\* parent once, and no other
C10_RootsExact ==
    query.name = "getRootIndividuals" =>
        /\ \A k \in 1..Len(tree.individuals) :
              (Some(tree.individuals[k]) \in Listed(query.name, result))
                 <=> ~HasResolvableParent(tree, tree.individuals[k])
        /\ Listed(query.name, result) \subseteq Individuals(tree)
        /\ Cardinality(Listed(query.name, result)) = Len(result)

\* the FAMC family of I1 names a father without a record and the FAMC family
\* of I2 has no record: both were returned as roots
C10_Witness ==
    /\ query.name = "getRootIndividuals"
    /\ Get(getIndividual(tree, X_I1)).val.familiesAsChild = <<X_F1>>
    /\ Get(getFamily(tree, X_F1)).val.husband = Some(X_I3)
    /\ Get(getIndividual(tree, X_I2)).val.familiesAsChild = <<X_F3>>
    /\ result = <<getIndividual(tree, X_I1), getIndividual(tree, X_I2)>>

----------------------------------------------------------------------------
(* Traversal of a loaded tree: formatTree, formatAncestors, formatDescendants *)

\* the largest depth asked of a traversal
MaxDepth == 2

\* the call stack holds one frame more than the depth asked
MaxFrames == MaxDepth + 1

Directions == {"ancestors", "descendants"}

\* a traversal was called and has not returned
Walking == query.name \in Directions /\ result = <<>>

\* the links a file of a traversed tree may have: those between the records
WalkLinks(links) == {l \in links : l.to \in {X_I1, X_I2, X_F1, X_F2}}

InitWalk ==
    /\ \/ Loaded(WalkLinks(AncestorLinks), MaxWalkLinks)
       \/ Loaded(WalkLinks(DescendantLinks), MaxWalkLinks)
    /\ query = NoQuery
    /\ result = <<>>
    /\ frames = <<>>
    /\ out = <<>>
    /\ visited = {}
    /\ NoShell

\* a line pushed on lines: whose line it is, its label and the depth
OutLine(id, label, depth) == [individual |-> id, label |-> label, depth |-> depth]

\* a call of formatAncestors / formatDescendants, at its first statement
NewFrame(id, depth) ==
    [individual |-> id, depth |-> depth, at |-> "entry", list |-> <<>>, i |-> 0]

\* the children of getChildren, shaped as the parents of getParents
RECURSIVE AsChildren(_, _)
AsChildren(list, k) ==
    IF k > Len(list) THEN <<>>
    ELSE <<[relation |-> "child", individual |-> list[k]]>> \o AsChildren(list, k + 1)

\* this.tree.getParents(individual.id, visited) or getChildren(...)
Related(tr, direction, id, vis) ==
    IF direction = "ancestors" THEN getParents(tr, id, vis)
    ELSE AsChildren(getChildren(tr, id, vis), 1)

\* the same without the depth test, the visited test and the visited filter
EnterList_Unguarded(tr, direction, id, depth, maxDepth, vis) ==
    Related(tr, direction, id, None)

\* the list a call loops over; empty when the call returns before its loop
EnterList(tr, direction, id, depth, maxDepth, vis) ==
    IF depth >= maxDepth THEN <<>>
    ELSE IF id \in vis THEN <<>>
    ELSE Related(tr, direction, id, Some(vis \cup {id}))

\* return: the frame is popped and the caller's loop goes on with i++
Return(fs) ==
    LET rest == SubSeq(fs, 1, Len(fs) - 1)
    IN  IF rest = <<>> THEN rest ELSE [rest EXCEPT ![Len(rest)].i = @ + 1]

Top == frames[Len(frames)]

\* formatTree(individualId, depth, direction), called on the loaded tree
FormatTree(id, depth, direction) ==
    /\ query = NoQuery
    /\ query' = [name |-> direction, id |-> id, depth |-> depth]
    /\ visited' = {}
    /\ IF getIndividual(tree, id) = None
       THEN /\ result' = Some(<<"Individual not found.">>)
            /\ out' = <<>>
            /\ frames' = <<>>
       ELSE /\ result' = <<>>
            /\ out' = <<OutLine(id, "root", 0)>>
            /\ frames' = <<NewFrame(id, 0)>>
    /\ UNCHANGED <<parseVars, shellVars>>

\* the statements of a call before its loop
Enter ==
    /\ Walking /\ frames # <<>> /\ Top.at = "entry"
    /\ LET list == EnterList(tree, query.name, Top.individual, Top.depth, query.depth,
                             visited)
       IN  /\ visited' = IF Top.depth >= query.depth \/ Top.individual \in visited
                         THEN visited ELSE visited \cup {Top.individual}
           /\ frames' = IF list = <<>> THEN Return(frames)
                        ELSE [frames EXCEPT ![Len(frames)].at = "loop",
                                            ![Len(frames)].list = list,
                                            ![Len(frames)].i = 1]
    /\ UNCHANGED <<parseVars, shellVars, query, result, out>>

\* one turn of the loop: the line of the parent or child, then the call on it
Visit ==
    /\ Walking /\ frames # <<>> /\ Top.at = "loop"
    /\ Top.i <= Len(Top.list)
    /\ Len(frames) < MaxFrames
    /\ out' = Append(out, OutLine(Get(Top.list[Top.i].individual).key,
                                  Top.list[Top.i].relation, Top.depth))
    /\ frames' = Append(frames, NewFrame(Get(Top.list[Top.i].individual).key,
                                         Top.depth + 1))
    /\ UNCHANGED <<parseVars, shellVars, query, result, visited>>

\* the end of the loop of a call
LoopEnd ==
    /\ Walking /\ frames # <<>> /\ Top.at = "loop"
    /\ Top.i > Len(Top.list)
    /\ frames' = Return(frames)
    /\ UNCHANGED <<parseVars, shellVars, query, result, out, visited>>

\* formatTree returns lines.join
Joined ==
    /\ Walking /\ frames = <<>>
    /\ result' = Some(out)
    /\ UNCHANGED <<parseVars, shellVars, query, frames, out, visited>>

WalkStep == Enter \/ Visit \/ LoopEnd \/ Joined

NextWalk ==
    \/ \E id \in IndividualIds, depth \in 1..MaxDepth, direction \in Directions :
          FormatTree(id, depth, direction)
    \/ Enter
    \/ Visit
    \/ LoopEnd
    \/ Joined

\* a call that has begun runs on: JavaScript runs it to completion
SpecWalk == InitWalk /\ [][NextWalk]_vars /\ WF_vars(WalkStep)

\* C8: a traversal that was called returns, whatever cycles the tree has
C8_Terminates == Walking ~> ~Walking

\* I1 is the child of F1 whose husband is I2, I2 the child of F2 whose husband
\* is I1; the ancestors of I1 to depth 2 were asked and formatTree returned
C8_Witness ==
    /\ query = [name |-> "ancestors", id |-> X_I1, depth |-> 2]
    /\ Get(getIndividual(tree, X_I1)).val.familiesAsChild = <<X_F1>>
    /\ Get(getFamily(tree, X_F1)).val.husband = Some(X_I2)
    /\ Get(getIndividual(tree, X_I2)).val.familiesAsChild = <<X_F2>>
    /\ Get(getFamily(tree, X_F2)).val.husband = Some(X_I1)
    /\ result = Some(<<OutLine(X_I1, "root", 0), OutLine(X_I2, "father", 0)>>)

\* C9: the lines of one traversal name no individual twice
C9_NoDuplicates ==
    \A i, j \in 1..Len(out) : i # j => out[i].individual # out[j].individual

----------------------------------------------------------------------------
(* dateParser.js *)

LowerCase == <<"a", "b", "c", "d", "e", "f", "g", "h", "i", "j", "k", "l", "m",
               "n", "o", "p", "q", "r", "s", "t", "u", "v", "w", "x", "y", "z">>
UpperCase == <<"A", "B", "C", "D", "E", "F", "G", "H", "I", "J", "K", "L", "M",
               "N", "O", "P", "Q", "R", "S", "T", "U", "V", "W", "X", "Y", "Z">>

\* [A-Z], and [A-Z] under the flag i
IsUpper(c) == \E k \in 1..26 : UpperCase[k] = c
IsLetter(c) == IsUpper(c) \/ \E k \in 1..26 : LowerCase[k] = c

\* String.prototype.toUpperCase
UpperOf(c) ==
    IF \E k \in 1..26 : LowerCase[k] = c
    THEN UpperCase[CHOOSE k \in 1..26 : LowerCase[k] = c]
    ELSE c

toUpperCase(s) == [k \in 1..Len(s) |-> UpperOf(s[k])]

RECURSIVE RunLetters(_, _)
RunLetters(s, i) ==
    IF i <= Len(s) /\ IsLetter(s[i]) THEN 1 + RunLetters(s, i + 1) ELSE 0

\* the upper-case letters that end s
RECURSIVE UpperSuffix(_)
UpperSuffix(s) ==
    IF s # <<>> /\ IsUpper(s[Len(s)]) THEN 1 + UpperSuffix(SubSeq(s, 1, Len(s) - 1)) ELSE 0

M_ABT == <<"A", "B", "T">>
M_ABOUT == <<"A", "B", "O", "U", "T">>
M_BEF == <<"B", "E", "F">>
M_BEFORE == <<"B", "E", "F", "O", "R", "E">>
M_AFT == <<"A", "F", "T">>
M_AFTER == <<"A", "F", "T", "E", "R">>
M_BET == <<"B", "E", "T">>
M_BETWEEN == <<"B", "E", "T", "W", "E", "E", "N">>
M_EST == <<"E", "S", "T">>
M_ESTIMATED == <<"E", "S", "T", "I", "M", "A", "T", "E", "D">>
M_CAL == <<"C", "A", "L">>
M_CALCULATED == <<"C", "A", "L", "C", "U", "L", "A", "T", "E", "D">>

\* the alternatives of the modifier pattern, in its order
Modifiers ==
    <<M_ABT, M_ABOUT, M_BEF, M_BEFORE, M_AFT, M_AFTER, M_BET, M_BETWEEN,
      M_EST, M_ESTIMATED, M_CAL, M_CALCULATED>>

\* MONTH_MAP_ZERO_BASED, as the sequence of its keys: the value of a key is
\* its position less one
MonthNames ==
    <<<<"J", "A", "N">>, <<"F", "E", "B">>, <<"M", "A", "R">>, <<"A", "P", "R">>,
      <<"M", "A", "Y">>, <<"J", "U", "N">>, <<"J", "U", "L">>, <<"A", "U", "G">>,
      <<"S", "E", "P">>, <<"O", "C", "T">>, <<"N", "O", "V">>, <<"D", "E", "C">>>>

IsMonthName(w) == \E k \in 1..12 : MonthNames[k] = w

\* a month table that counts from one
MonthNum_OneBased(month) ==
    IF IsMonthName(toUpperCase(month))
    THEN Some(CHOOSE k \in 1..12 : MonthNames[k] = toUpperCase(month))
    ELSE None

\* MONTH_MAP_ZERO_BASED[month.toUpperCase()]: None for undefined
MonthNum(month) ==
    IF IsMonthName(toUpperCase(month))
    THEN Some((CHOOSE k \in 1..12 : MonthNames[k] = toUpperCase(month)) - 1)
    ELSE None

GREGORIAN == <<"G", "R", "E", "G", "O", "R", "I", "A", "N">>

\* the alternative k of the modifier pattern matches at the start of s: the
\* word, then \s+, then (.+)
ModifierAt(s, k) ==
    /\ Len(s) > Len(Modifiers[k])
    /\ toUpperCase(SubSeq(s, 1, Len(Modifiers[k]))) = Modifiers[k]
    /\ RunSpaces(s, Len(Modifiers[k]) + 1) > 0
    /\ Len(Modifiers[k]) + RunSpaces(s, Len(Modifiers[k]) + 1) < Len(s)

\* trimmed.match(/^(ABT|...)\s+(.+)$/i): None, or the groups
modifierMatch(s) ==
    IF \E k \in 1..Len(Modifiers) : ModifierAt(s, k)
    THEN LET k == CHOOSE j \in 1..Len(Modifiers) :
                     ModifierAt(s, j) /\ \A h \in 1..(j - 1) : ~ModifierAt(s, h)
             from == Len(Modifiers[k]) + RunSpaces(s, Len(Modifiers[k]) + 1) + 1
         IN  Some([modifier |-> toUpperCase(SubSeq(s, 1, Len(Modifiers[k]))),
                   rest |-> SubSeq(s, from, Len(s))])
    ELSE None

\* dateWithoutModifier.match(/\s+([A-Z]{2,4})$/): None, or the group
calendarMatch(s) ==
    IF /\ UpperSuffix(s) \in 2..4
       /\ Len(s) > UpperSuffix(s)
       /\ IsSpace(s[Len(s) - UpperSuffix(s)])
    THEN Some(SubSeq(s, Len(s) - UpperSuffix(s) + 1, Len(s)))
    ELSE None

\* the greedy run at position i of the class named kind: \d+, \s+ or [A-Z]+
\* under the flag i
RunOf(kind, s, i) ==
    CASE kind = "d" -> RunDigits(s, i)
      [] kind = "s" -> RunSpaces(s, i)
      [] kind = "l" -> RunLetters(s, i)

\* ^X+Y+...$ for adjacent classes that share no character: the runs of s from
\* position i for the classes kinds[k..], None when s does not match
RECURSIVE Runs(_, _, _, _)
RunsNext(s, i, kinds, k, n, rest) ==
    IF n = 0 \/ rest = None THEN None
    ELSE Some(<<SubSeq(s, i, i + n - 1)>> \o Get(rest))

Runs(s, i, kinds, k) ==
    IF k > Len(kinds) THEN (IF i > Len(s) THEN Some(<<>>) ELSE None)
    ELSE RunsNext(s, i, kinds, k, RunOf(kinds[k], s, i),
                  IF RunOf(kinds[k], s, i) = 0 THEN None
                  ELSE Runs(s, i + RunOf(kinds[k], s, i), kinds, k + 1))

\* dateCore.match(/^(\d+)\s+([A-Z]+)\s+(\d+)$/i)
standardMatch(dateCore) == Runs(dateCore, 1, <<"d", "s", "l", "s", "d">>, 1)
\* dateCore.match(/^([A-Z]+)\s+(\d+)$/i)
monthYearMatch(dateCore) == Runs(dateCore, 1, <<"l", "s", "d">>, 1)
\* dateCore.match(/^(\d+)$/)
yearMatch(dateCore) == Runs(dateCore, 1, <<"d">>, 1)

\* the object parseGedcomDate returns
ParsedDate(calendar, year, month, day, modifier, original) ==
    Some([calendar |-> calendar, year |-> year, month |-> month, day |-> day,
          modifier |-> modifier, original |-> original])

\* the three patterns on dateCore, most specific first
MatchCore(dateCore, calendar, modifier, dateStr) ==
    IF standardMatch(dateCore) # None /\ MonthNum(Get(standardMatch(dateCore))[3]) # None
    THEN ParsedDate(calendar, ParseInt(Get(standardMatch(dateCore))[5]),
                    Get(MonthNum(Get(standardMatch(dateCore))[3])) + 1,
                    ParseInt(Get(standardMatch(dateCore))[1]), modifier, dateStr)
    ELSE IF monthYearMatch(dateCore) # None
            /\ MonthNum(Get(monthYearMatch(dateCore))[1]) # None
    THEN ParsedDate(calendar, ParseInt(Get(monthYearMatch(dateCore))[3]),
                    Get(MonthNum(Get(monthYearMatch(dateCore))[1])) + 1, 1,
                    modifier, dateStr)
    ELSE IF yearMatch(dateCore) # None
    THEN ParsedDate(calendar, ParseInt(Get(yearMatch(dateCore))[1]), 1, 1, modifier, dateStr)
    ELSE None

\* a suffix detection that takes every trailing token of 2 to 4 upper-case
\* letters as a calendar, the month names too
DetectCalendar_MonthsToo(dateWithoutModifier, modifier, dateStr) ==
    IF calendarMatch(dateWithoutModifier) # None
    THEN MatchCore(Trim(SubSeq(dateWithoutModifier, 1,
                               Len(dateWithoutModifier)
                                 - Len(Get(calendarMatch(dateWithoutModifier))))),
                   Get(calendarMatch(dateWithoutModifier)), modifier, dateStr)
    ELSE MatchCore(dateWithoutModifier, GREGORIAN, modifier, dateStr)

\* the calendar suffix: a month name is no calendar
DetectCalendar(dateWithoutModifier, modifier, dateStr) ==
    IF calendarMatch(dateWithoutModifier) # None
       /\ ~IsMonthName(Get(calendarMatch(dateWithoutModifier)))
    THEN MatchCore(Trim(SubSeq(dateWithoutModifier, 1,
                               Len(dateWithoutModifier)
                                 - Len(Get(calendarMatch(dateWithoutModifier))))),
                   Get(calendarMatch(dateWithoutModifier)), modifier, dateStr)
    ELSE MatchCore(dateWithoutModifier, GREGORIAN, modifier, dateStr)

\* the modifier, then the rest
StripModifier(trimmed, dateStr) ==
    IF modifierMatch(trimmed) # None
    THEN DetectCalendar(Get(modifierMatch(trimmed)).rest,
                        Some(Get(modifierMatch(trimmed)).modifier), dateStr)
    ELSE DetectCalendar(trimmed, None, dateStr)

\* parseGedcomDate: None for null
parseGedcomDate(dateStr) ==
    IF dateStr = <<>> THEN None ELSE StripModifier(Trim(dateStr), dateStr)

\* a difference that does not compare the calendars
calculateYearDifference_NoCalendarCheck(fromDate, toDate) ==
    IF fromDate = None \/ toDate = None THEN None
    ELSE Some(Get(toDate).year - Get(fromDate).year
              - (IF \/ Get(toDate).month < Get(fromDate).month
                    \/ /\ Get(toDate).month = Get(fromDate).month
                       /\ Get(toDate).day < Get(fromDate).day
                 THEN 1 ELSE 0))

\* a year difference that looks at the months only
calculateYearDifference_MonthOnly(fromDate, toDate) ==
    IF fromDate = None \/ toDate = None THEN None
    ELSE IF Get(fromDate).calendar # Get(toDate).calendar THEN None
    ELSE Some(Get(toDate).year - Get(fromDate).year
              - (IF Get(toDate).month < Get(fromDate).month THEN 1 ELSE 0))

\* calculateYearDifference: None for null
calculateYearDifference(fromDate, toDate) ==
    IF fromDate = None \/ toDate = None THEN None
    ELSE IF Get(fromDate).calendar # Get(toDate).calendar THEN None
    ELSE Some(Get(toDate).year - Get(fromDate).year
              - (IF \/ Get(toDate).month < Get(fromDate).month
                    \/ /\ Get(toDate).month = Get(fromDate).month
                       /\ Get(toDate).day < Get(fromDate).day
                 THEN 1 ELSE 0))

\* a current date that is the override whenever one is set
getCurrentDate_AnyOverride(context, calendar, now) ==
    IF context # None THEN context
    ELSE IF calendar # GREGORIAN THEN None
    ELSE Some([calendar |-> GREGORIAN, year |-> now.year, month |-> now.month + 1,
               day |-> now.day])

\* getCurrentDate(calendar), now the date of new Date() with its month counted
\* from 0
getCurrentDate(context, calendar, now) ==
    IF context # None /\ Get(context).calendar = calendar THEN context
    ELSE IF calendar # GREGORIAN THEN None
    ELSE Some([calendar |-> GREGORIAN, year |-> now.year, month |-> now.month + 1,
               day |-> now.day])

----------------------------------------------------------------------------
(* Calls of the pure functions of dateParser.js *)

\* the most tokens of a date string
MaxDateTokens == 4

D_20 == <<"2", "0">>
D_1979 == <<"1", "9", "7", "9">>
D_JUN == <<"J", "U", "N">>
D_jun == <<"j", "u", "n">>
D_FOO == <<"F", "O", "O">>
D_AG == <<"A", "G">>
D_ag == <<"a", "g">>
D_ABCDE == <<"A", "B", "C", "D", "E">>
D_abt == <<"a", "b", "t">>

\* the tokens a date string is made of; the empty token doubles a blank or
\* puts one at an end
DateTokens == {<<>>, M_ABT, D_abt, D_20, D_1979, D_JUN, D_jun, D_FOO, D_AG, D_ag, D_ABCDE}

RECURSIVE JoinTokens(_, _)
JoinTokens(tokens, k) ==
    IF k > Len(tokens) THEN <<>>
    ELSE IF k = Len(tokens) THEN tokens[k]
    ELSE tokens[k] \o SP \o JoinTokens(tokens, k + 1)

DateStrings(n) ==
    {JoinTokens(tokens, 1) : tokens \in UNION {[1..k -> DateTokens] : k \in 0..n}}

\* the dates handed to calculateYearDifference: null and parsed dates
SomeDates ==
    {parseGedcomDate(JoinTokens(tokens, 1)) :
        tokens \in {<<>>, <<D_1979>>, <<D_20, D_JUN, D_1979>>, <<D_JUN, D_20>>,
                    <<D_1979, D_AG>>, <<D_20, D_JUN, D_20, D_AG>>, <<D_20, D_AG>>}}

\* a call of a pure function: the call and what it returns
PureCall(name, arg, returned) ==
    /\ query = NoQuery
    /\ query' = [name |-> name, id |-> arg, depth |-> 0]
    /\ result' = returned
    /\ UNCHANGED <<parseVars, walkVars, shellVars>>

ParseGedcomDate(dateStr) ==
    PureCall("parseGedcomDate", dateStr, parseGedcomDate(dateStr))

CalculateYearDifference(fromDate, toDate) ==
    PureCall("calculateYearDifference", <<fromDate, toDate>>,
             calculateYearDifference(fromDate, toDate))

\* the calls a program makes of the two functions, one call in a behaviour
ParseSomeDate ==
    /\ query = NoQuery
    /\ \E dateStr \in DateStrings(MaxDateTokens) : ParseGedcomDate(dateStr)

DifferenceOfSomeDates ==
    /\ query = NoQuery
    /\ \E fromDate \in SomeDates, toDate \in SomeDates :
          CalculateYearDifference(fromDate, toDate)

NextDate == ParseSomeDate \/ DifferenceOfSomeDates

SpecDate == Init /\ [][NextDate]_vars

\* C17: calculateYearDifference returns null when a date is missing or the
\* calendars differ, and a number when both dates have the same calendar
C17_SameCalendarOnly ==
    query.name = "calculateYearDifference" =>
        IF \/ query.id[1] = None
           \/ query.id[2] = None
           \/ Get(query.id[1]).calendar # Get(query.id[2]).calendar
        THEN result = None
        ELSE result # None /\ Get(result) \in Int

\* a date of calendar AG and a Gregorian date were given: null
C17_Witness ==
    /\ query.name = "calculateYearDifference"
    /\ query.id[1] # None /\ Get(query.id[1]).calendar = D_AG
    /\ query.id[2] # None /\ Get(query.id[2]).calendar = GREGORIAN
    /\ result = None

\* the words of a date string: its maximal runs of characters that are not
\* white space
RECURSIVE RunNonSpace(_, _)
RunNonSpace(s, i) ==
    IF i <= Len(s) /\ ~IsSpace(s[i]) THEN 1 + RunNonSpace(s, i + 1) ELSE 0

RECURSIVE WordsFrom(_, _)
WordsFrom(s, i) ==
    IF i > Len(s) THEN <<>>
    ELSE IF IsSpace(s[i]) THEN WordsFrom(s, i + 1)
    ELSE <<SubSeq(s, i, i + RunNonSpace(s, i) - 1)>> \o WordsFrom(s, i + RunNonSpace(s, i))

Words(s) == WordsFrom(s, 1)

DigitWord(w) == \A k \in 1..Len(w) : IsDigit(w[k])
LetterWord(w) == \A k \in 1..Len(w) : IsLetter(w[k])
UpperWord(w) == \A k \in 1..Len(w) : IsUpper(w[k])
MonthWord(w) == \E k \in 1..12 : MonthNames[k] = toUpperCase(w)
MonthIndex(w) == CHOOSE k \in 1..12 : MonthNames[k] = toUpperCase(w)

\* the date string begins with a modifier word that something follows
HasModifierWord(w) ==
    Len(w) >= 2 /\ \E k \in 1..Len(Modifiers) : Modifiers[k] = toUpperCase(w[1])

AfterModifier(w) == IF HasModifierWord(w) THEN Tail(w) ELSE w

\* the words after the modifier end in a calendar word that something precedes
HasCalendarWord(w) ==
    /\ Len(AfterModifier(w)) >= 2
    /\ Len(w[Len(w)]) \in 2..4
    /\ UpperWord(w[Len(w)])
    /\ ~MonthWord(w[Len(w)])

CoreWords(w) ==
    IF HasCalendarWord(w)
    THEN SubSeq(AfterModifier(w), 1, Len(AfterModifier(w)) - 1)
    ELSE AfterModifier(w)

\* year, month and day of the core words D MON Y, MON Y or Y; None for any
\* other core
CoreDate(c) ==
    IF Len(c) = 3 /\ DigitWord(c[1]) /\ LetterWord(c[2]) /\ MonthWord(c[2])
       /\ DigitWord(c[3])
    THEN Some([year |-> ParseInt(c[3]), month |-> MonthIndex(c[2]),
               day |-> ParseInt(c[1])])
    ELSE IF Len(c) = 2 /\ LetterWord(c[1]) /\ MonthWord(c[1]) /\ DigitWord(c[2])
    THEN Some([year |-> ParseInt(c[2]), month |-> MonthIndex(c[1]), day |-> 1])
    ELSE IF Len(c) = 1 /\ DigitWord(c[1])
    THEN Some([year |-> ParseInt(c[1]), month |-> 1, day |-> 1])
    ELSE None

YearMonthDay(date) ==
    [year |-> Get(date).year, month |-> Get(date).month, day |-> Get(date).day]

\* C18: the core of a date string is read as D MON Y, as MON Y with day 1 or
\* as Y with month 1 and day 1, the month counted from 1; any other core, one
\* with an unknown month name too, gives null; without a calendar suffix the
\* calendar is GREGORIAN and without a modifier the modifier is null
C18_CorePatterns ==
    query.name = "parseGedcomDate" =>
        IF CoreDate(CoreWords(Words(query.id))) = None THEN result = None
        ELSE /\ result # None
             /\ YearMonthDay(result) = Get(CoreDate(CoreWords(Words(query.id))))
             /\ ~HasCalendarWord(Words(query.id)) => Get(result).calendar = GREGORIAN
             /\ ~HasModifierWord(Words(query.id)) => Get(result).modifier = None

\* 20 JUN 1979 was parsed
C18_Witness ==
    /\ query.name = "parseGedcomDate"
    /\ query.id = JoinTokens(<<D_20, D_JUN, D_1979>>, 1)
    /\ result = ParsedDate(GREGORIAN, 1979, 6, 20, None, query.id)

\* C19: a last word of 2 to 4 upper-case letters that is no month name and
\* that follows another word after the modifier is the calendar of the date,
\* and the date is read from the words before it; any other date that is
\* read has the calendar GREGORIAN
C19_CalendarSuffix ==
    query.name = "parseGedcomDate" /\ result # None =>
        /\ Get(result).calendar =
             IF HasCalendarWord(Words(query.id))
             THEN Words(query.id)[Len(Words(query.id))] ELSE GREGORIAN
        /\ Get(result).modifier =
             IF HasModifierWord(Words(query.id))
             THEN Some(toUpperCase(Words(query.id)[1])) ELSE None
        /\ CoreDate(CoreWords(Words(query.id))) = Some(YearMonthDay(result))

\* ABT 1979 AG was parsed
C19_Witness ==
    /\ query.name = "parseGedcomDate"
    /\ query.id = JoinTokens(<<M_ABT, D_1979, D_AG>>, 1)
    /\ result = ParsedDate(D_AG, 1979, 1, 1, Some(M_ABT), query.id)

----------------------------------------------------------------------------
(* The fictional date context: setdate, showdate, cleardate, and the ages
   Formatter.calculateAge shows *)

\* parseInt(s, 10) of a command argument: None for NaN
parseIntOrNaN(s) ==
    IF RunDigits(s, IF StartsWith(s, "-") \/ StartsWith(s, "+") THEN 2 ELSE 1) = 0
    THEN None
    ELSE Some(ParseIntOrZero(s))

\* setFictionalDateContext(context) for a context that is not null: the new
\* value of the module variable; a context without a calendar throws and
\* leaves old
setFictionalDateContext(old, context) ==
    IF context.calendar = <<>> THEN old
    ELSE Some([calendar |-> context.calendar, year |-> context.year,
               month |-> IF context.month = 0 THEN 1 ELSE context.month,
               day |-> IF context.day = 0 THEN 1 ELSE context.day])

\* month and day of setDate: 1 when the argument is not given
setDateMonth(args) == IF Len(args) > 2 THEN parseIntOrNaN(args[3]) ELSE Some(1)
setDateDay(args) == IF Len(args) > 3 THEN parseIntOrNaN(args[4]) ELSE Some(1)

\* the context setDate sets; None when it returns the usage or an error text
setDateContext(args) ==
    IF Len(args) < 2 THEN None
    ELSE IF parseIntOrNaN(args[2]) = None \/ setDateMonth(args) = None
            \/ setDateDay(args) = None
    THEN None
    ELSE IF Get(setDateMonth(args)) < 1 \/ Get(setDateMonth(args)) > 12 THEN None
    ELSE IF Get(setDateDay(args)) < 1 \/ Get(setDateDay(args)) > 31 THEN None
    ELSE Some([calendar |-> toUpperCase(args[1]), year |-> Get(parseIntOrNaN(args[2])),
               month |-> Get(setDateMonth(args)), day |-> Get(setDateDay(args))])

\* birthDateStr.match(/(\d+)\s+(\w+)\s+(\d{4})/) from position i: the classes
\* of adjacent runs share no character, so each run is taken whole; None when
\* there is no match from i
ageYear(s, day, month, j) ==
    IF RunDigits(s, j) >= 4
    THEN Some([day |-> day, month |-> month, year |-> SubSeq(s, j, j + 3)])
    ELSE None

ageSecondGap(s, day, month, j) ==
    IF RunSpaces(s, j) = 0 THEN None
    ELSE ageYear(s, day, month, j + RunSpaces(s, j))

ageMonth(s, day, j) ==
    IF RunWord(s, j) = 0 THEN None
    ELSE ageSecondGap(s, day, SubSeq(s, j, j + RunWord(s, j) - 1), j + RunWord(s, j))

ageFirstGap(s, day, j) ==
    IF RunSpaces(s, j) = 0 THEN None
    ELSE ageMonth(s, day, j + RunSpaces(s, j))

ageMatchAt(s, i) ==
    IF RunDigits(s, i) = 0 THEN None
    ELSE ageFirstGap(s, SubSeq(s, i, i + RunDigits(s, i) - 1), i + RunDigits(s, i))

\* the leftmost match of the pattern in s
ageMatch(s) ==
    IF \E i \in 1..Len(s) : ageMatchAt(s, i) # None
    THEN ageMatchAt(s, CHOOSE i \in 1..Len(s) :
                          /\ ageMatchAt(s, i) # None
                          /\ \A h \in 1..(i - 1) : ageMatchAt(s, h) = None)
    ELSE None

\* new Date(parseInt(year), MONTH_MAP_ZERO_BASED[month.toUpperCase()],
\* parseInt(day)): None for an invalid date (the month is undefined); a year
\* below 100 counts from 1900; the days in play lie within their month
NewDate(m) ==
    IF MonthNum(m.month) = None THEN None
    ELSE Some([year |-> IF ParseInt(m.year) < 100 THEN 1900 + ParseInt(m.year)
                        ELSE ParseInt(m.year),
               month |-> Get(MonthNum(m.month)), day |-> ParseInt(m.day)])

DigitChars == <<"0", "1", "2", "3", "4", "5", "6", "7", "8", "9">>

\* Number.prototype.toString of an integer
RECURSIVE NatToString(_)
NatToString(n) ==
    IF n < 10 THEN <<DigitChars[n + 1]>>
    ELSE NatToString(n \div 10) \o <<DigitChars[(n % 10) + 1]>>

IntToString(n) == IF n < 0 THEN <<"-">> \o NatToString(0 - n) ELSE NatToString(n)

NaN == <<"N", "a", "N">>

\* the age from the two Date objects, as a string
AgeBetween(birthDate, endDate) ==
    IF birthDate = None \/ endDate = None THEN NaN
    ELSE IntToString(Get(endDate).year - Get(birthDate).year
                     - (IF \/ Get(endDate).month - Get(birthDate).month < 0
                           \/ /\ Get(endDate).month - Get(birthDate).month = 0
                              /\ Get(endDate).day < Get(birthDate).day
                        THEN 1 ELSE 0))

\* Formatter.calculateAge of an individual with the dates of birth and of
\* death (None for no event or no date), now the date of new Date() with its
\* month counted from 0
calculateAge(birth, death, now) ==
    IF birth = None \/ Get(birth) = <<>> THEN <<>>
    ELSE IF ageMatch(Get(birth)) = None THEN <<>>
    ELSE IF death # None /\ Get(death) # <<>>
    THEN (IF ageMatch(Get(death)) = None THEN <<>>
          ELSE AgeBetween(NewDate(Get(ageMatch(Get(birth)))),
                          NewDate(Get(ageMatch(Get(death))))))
    ELSE AgeBetween(NewDate(Get(ageMatch(Get(birth)))), Some(now))

----------------------------------------------------------------------------
(* The date commands of the shell and the calls that read the context *)

A_10210 == <<"1", "0", "2", "1", "0">>
A_1990 == <<"1", "9", "9", "0">>
A_x == <<"x">>
A_6 == <<"6">>
A_13 == <<"1", "3">>
A_15 == <<"1", "5">>
A_0 == <<"0">>
A_gregorian == <<"g", "r", "e", "g", "o", "r", "i", "a", "n">>
D_BG == <<"B", "G">>
D_10191 == <<"1", "0", "1", "9", "1">>
D_2001 == <<"2", "0", "0", "1">>
D_MAR == <<"M", "A", "R">>
D_3 == <<"3">>

\* the arguments of setdate
SetDateArgs ==
    LET cs == {D_ag, D_AG, A_gregorian}
        ys == {A_10210, A_1990, A_x}
        ms == {A_6, A_13}
        ds == {A_15, A_0}
    IN  {<<c>> : c \in cs} \cup (cs \X ys) \cup (cs \X ys \X ms)
          \cup (cs \X ys \X ms \X ds)

\* the dates of birth of the individuals whose age is shown
BirthDates ==
    {None, Some(<<>>),
     Some(JoinTokens(<<M_ABT, D_10191, D_AG>>, 1)),
     Some(JoinTokens(<<D_10191, D_AG>>, 1)),
     Some(JoinTokens(<<D_20, D_JUN, D_10191, D_AG>>, 1)),
     Some(JoinTokens(<<D_20, D_JUN, D_1979>>, 1)),
     Some(JoinTokens(<<D_20, D_FOO, D_1979>>, 1)),
     Some(JoinTokens(<<M_ABT, D_1979>>, 1))}

DeathDates ==
    {None, Some(JoinTokens(<<D_3, D_MAR, D_2001>>, 1)),
     Some(JoinTokens(<<M_ABT, D_2001>>, 1))}

\* the dates new Date() gives, the month counted from 0
Nows == {[year |-> 2026, month |-> 10, day |-> 1], [year |-> 2027, month |-> 2, day |-> 9]}

Calendars == {D_AG, D_BG, GREGORIAN}

\* Commands.setDate
SetDate(args) ==
    /\ query = NoQuery
    /\ fictionalDateContext' =
          IF setDateContext(args) = None THEN fictionalDateContext
          ELSE setFictionalDateContext(fictionalDateContext, Get(setDateContext(args)))
    /\ UNCHANGED <<parseVars, queryVars, walkVars, disk, models, app, navigator,
                   formatter>>

\* Commands.clearDate
ClearDate ==
    /\ query = NoQuery
    /\ fictionalDateContext' = None
    /\ UNCHANGED <<parseVars, queryVars, walkVars, disk, models, app, navigator,
                   formatter>>

\* Commands.showDate reads getFictionalDateContext()
ShowDate == PureCall("showDate", <<>>, fictionalDateContext)

GetCurrentDate(calendar, now) ==
    PureCall("getCurrentDate", <<calendar, now>>,
             getCurrentDate(fictionalDateContext, calendar, now))

\* the age column of a listing for one individual
CalculateAge(birth, death, now) ==
    PureCall("calculateAge", <<birth, death, now>>, calculateAge(birth, death, now))

NextCalendar ==
    \/ \E args \in SetDateArgs : SetDate(args)
    \/ ClearDate
    \/ ShowDate
    \/ \E calendar \in Calendars, now \in Nows : GetCurrentDate(calendar, now)
    \/ \E birth \in BirthDates, death \in DeathDates, now \in Nows :
          CalculateAge(birth, death, now)

SpecCalendar == Init /\ [][NextCalendar]_vars

C16_OtherCalendar ==
    /\ query.name = "getCurrentDate" /\ query.id[1] = D_BG
    /\ fictionalDateContext # None /\ Get(fictionalDateContext).calendar = D_AG
    /\ result = None

\* C15: the age shown for a living individual whose date of birth is in the
\* calendar of the date context is the difference in years to that context;
\* with no context the age of an individual born in a calendar other than
\* GREGORIAN is empty
C15_AgeFromContext ==
    (/\ query.name = "calculateAge"
     /\ query.id[2] = None
     /\ query.id[1] # None
     /\ parseGedcomDate(Get(query.id[1])) # None) =>
        IF /\ fictionalDateContext # None
           /\ Get(fictionalDateContext).calendar =
                Get(parseGedcomDate(Get(query.id[1]))).calendar
        THEN result = IntToString(Get(calculateYearDifference(
                                        parseGedcomDate(Get(query.id[1])),
                                        fictionalDateContext)))
        ELSE Get(parseGedcomDate(Get(query.id[1]))).calendar # GREGORIAN
               => result = <<>>

\* after setdate AG 10210 the age of an individual born ABT 10191 AG is empty
C15_EmptyAge ==
    /\ query.name = "calculateAge"
    /\ query.id[1] = Some(JoinTokens(<<M_ABT, D_10191, D_AG>>, 1))
    /\ query.id[2] = None
    /\ fictionalDateContext =
          Some([calendar |-> D_AG, year |-> 10210, month |-> 1, day |-> 1])
    /\ result = <<>>

----------------------------------------------------------------------------
(* Tree: the search by name and the lists of all *)

\* String.prototype.toLowerCase
LowerOf(c) ==
    IF IsUpper(c) THEN LowerCase[CHOOSE k \in 1..26 : UpperCase[k] = c] ELSE c

toLowerCase(s) == [k \in 1..Len(s) |-> LowerOf(s[k])]

\* String.prototype.includes
Includes(s, part) ==
    \E i \in 1..(Len(s) - Len(part) + 1) : SubSeq(s, i, i + Len(part) - 1) = part

\* individual.name?.full?.toLowerCase() || '', and so for given and surname
LowerFull(ind) == IF ind.name = None THEN <<>> ELSE toLowerCase(Get(ind.name).full)
LowerGiven(ind) == IF ind.name = None THEN <<>> ELSE toLowerCase(Get(ind.name).given)
LowerSurname(ind) == IF ind.name = None THEN <<>> ELSE toLowerCase(Get(ind.name).surname)

NameMatches(ind, lowerQuery) ==
    \/ Includes(LowerFull(ind), lowerQuery)
    \/ Includes(LowerGiven(ind), lowerQuery)
    \/ Includes(LowerSurname(ind), lowerQuery)

\* the loop of findIndividualsByName from the k-th individual of the map
RECURSIVE FindFrom(_, _, _)
FindFrom(tr, lowerQuery, k) ==
    IF k > Len(tr.individuals) THEN <<>>
    ELSE (IF NameMatches(tr.individuals[k].val, lowerQuery)
          THEN <<Some(tr.individuals[k])>> ELSE <<>>)
         \o FindFrom(tr, lowerQuery, k + 1)

findIndividualsByName(tr, q) == FindFrom(tr, toLowerCase(q), 1)

\* Array.from(map.values())
getAllIndividuals(tr) == [k \in 1..Len(tr.individuals) |-> Some(tr.individuals[k])]
getAllFamilies(tr) == [k \in 1..Len(tr.families) |-> Some(tr.families[k])]

----------------------------------------------------------------------------
(* Navigator *)

\* The Tree objects built so far are the sequence models; a reference to a
\* Tree is its position there. currentIndividual and currentFamily are None
\* (null) or Some([model, id]): the object with that id of that Tree.

P_root == <<"/">>
P_individuals == <<"/", "i", "n", "d", "i", "v", "i", "d", "u", "a", "l", "s", "/">>
P_families == <<"/", "f", "a", "m", "i", "l", "i", "e", "s", "/">>

\* new Navigator(tree)
NewNavigator(ref) ==
    [tree |-> ref, currentPath |-> P_root, currentIndividual |-> None,
     currentFamily |-> None, history |-> <<>>]

\* getCurrentContext, with the id for the data
getCurrentContext(nav) ==
    IF nav.currentIndividual # None
    THEN [type |-> "individual", id |-> Get(nav.currentIndividual).id]
    ELSE IF nav.currentFamily # None
    THEN [type |-> "family", id |-> Get(nav.currentFamily).id]
    ELSE [type |-> "root", id |-> <<>>]

\* this.currentIndividual?.id, None for undefined
IdOf(current) == IF current = None THEN None ELSE Some(Get(current).id)

\* the branch of navigateToIndividual that found the individual
EnterIndividual(nav, id) ==
    [nav EXCEPT !.history = Append(@, [type |-> "individual",
                                       id |-> IdOf(nav.currentIndividual)]),
                !.currentIndividual = Some([model |-> nav.tree, id |-> id]),
                !.currentFamily = None,
                !.currentPath = P_individuals \o id]

\* navigateToIndividual: the navigator after the call and what the call
\* returned, "throw" for the error of several matches
ByName(nav, matches) ==
    IF Len(matches) = 1
    THEN [nav |-> EnterIndividual(nav, Get(matches[1]).key), returned |-> "true"]
    ELSE IF Len(matches) > 1 THEN [nav |-> nav, returned |-> "throw"]
    ELSE [nav |-> nav, returned |-> "false"]

\* a navigation by id that leaves no entry in the history
navigateToIndividual_NoEntry(nav, trees, idOrName) ==
    IF StartsWith(idOrName, "@") /\ getIndividual(trees[nav.tree], idOrName) # None
    THEN [nav |-> [EnterIndividual(nav, idOrName) EXCEPT !.history = nav.history],
          returned |-> "true"]
    ELSE ByName(nav, findIndividualsByName(trees[nav.tree], idOrName))

navigateToIndividual(nav, trees, idOrName) ==
    IF StartsWith(idOrName, "@") /\ getIndividual(trees[nav.tree], idOrName) # None
    THEN [nav |-> EnterIndividual(nav, idOrName), returned |-> "true"]
    ELSE ByName(nav, findIndividualsByName(trees[nav.tree], idOrName))

\* a navigation to a family that leaves the current individual set
navigateToFamily_KeepsIndividual(nav, trees, familyId) ==
    IF getFamily(trees[nav.tree], familyId) # None
    THEN [nav |-> [nav EXCEPT !.history = Append(@, [type |-> "family",
                                                     id |-> IdOf(nav.currentFamily)]),
                              !.currentFamily = Some([model |-> nav.tree, id |-> familyId]),
                              !.currentPath = P_families \o familyId],
          returned |-> "true"]
    ELSE [nav |-> nav, returned |-> "false"]

navigateToFamily(nav, trees, familyId) ==
    IF getFamily(trees[nav.tree], familyId) # None
    THEN [nav |-> [nav EXCEPT !.history = Append(@, [type |-> "family",
                                                     id |-> IdOf(nav.currentFamily)]),
                              !.currentFamily = Some([model |-> nav.tree, id |-> familyId]),
                              !.currentIndividual = None,
                              !.currentPath = P_families \o familyId],
          returned |-> "true"]
    ELSE [nav |-> nav, returned |-> "false"]

navigateToRoot(nav) ==
    [nav EXCEPT !.currentIndividual = None, !.currentFamily = None,
                !.currentPath = P_root]

clearHistory(nav) == [nav EXCEPT !.history = <<>>]

\* this.tree.getIndividual(prev.id) as a reference: None when the Tree has
\* no such object
ObjectOf(found, ref, id) == IF found = None THEN None ELSE Some([model |-> ref, id |-> id])

\* the branches of navigateBack on the entry prev that was popped
BackTo(nav, trees, prev) ==
    IF prev.type = "individual" /\ Truthy(prev.id)
    THEN [nav EXCEPT !.currentIndividual =
                        ObjectOf(getIndividual(trees[nav.tree], Get(prev.id)),
                                 nav.tree, Get(prev.id)),
                     !.currentFamily = None,
                     !.currentPath = P_individuals \o Get(prev.id)]
    ELSE IF prev.type = "family" /\ Truthy(prev.id)
    THEN [nav EXCEPT !.currentFamily =
                        ObjectOf(getFamily(trees[nav.tree], Get(prev.id)),
                                 nav.tree, Get(prev.id)),
                     !.currentIndividual = None,
                     !.currentPath = P_families \o Get(prev.id)]
    ELSE navigateToRoot(nav)

navigateBack(nav, trees) ==
    IF Len(nav.history) > 0
    THEN [nav |-> BackTo([nav EXCEPT !.history = SubSeq(@, 1, Len(@) - 1)], trees,
                         nav.history[Len(nav.history)]),
          returned |-> "true"]
    ELSE [nav |-> nav, returned |-> "false"]

----------------------------------------------------------------------------
(* The shell: cd and reload on the loaded application *)

\* the components of the application that refer to the Tree
Shell == [models |-> models, app |-> app, navigator |-> navigator,
          formatter |-> formatter]

C_tilde == <<"~">>
C_up == <<".", ".">>

\* Commands.cd on the target args.join(' '): the navigator after the command
\* and the message it returns
cdIndividual(r) ==
    [nav |-> r.nav,
     returned |-> CASE r.returned = "true" -> "Navigated to"
                    [] r.returned = "false" -> "Individual not found"
                    [] r.returned = "throw" -> "Error"]

cdFamily(r) ==
    [nav |-> r.nav,
     returned |-> IF r.returned = "true" THEN "Navigated to family"
                  ELSE "Family not found"]

cdBack(r) ==
    [nav |-> r.nav,
     returned |-> IF r.returned = "true" THEN "Navigated back" ELSE "Already at root"]

cd(nav, trees, target) ==
    IF target = C_tilde \/ target = P_root
    THEN [nav |-> navigateToRoot(nav), returned |-> "Navigated to root"]
    ELSE IF target = C_up THEN cdBack(navigateBack(nav, trees))
    ELSE IF Len(target) >= 2 /\ target[1] = "@" /\ target[2] = "F"
    THEN cdFamily(navigateToFamily(nav, trees, target))
    ELSE cdIndividual(navigateToIndividual(nav, trees, target))

\* parser.parse(this.filepath) and new Tree(parsedData) of a file on disk:
\* None when readFileSync throws (no file) or a handler throws
ParsedTree(parsed) == IF parsed.thrown THEN None ELSE Some(parsed.tree)
newTree(file) == IF file = None THEN None ELSE ParsedTree(parse(Get(file)))

\* a reload that does not clear the history
reloadWith_HistoryKept(s, built) ==
    IF built = None THEN s
    ELSE [models |-> Append(s.models, Get(built)),
          app |-> [tree |-> Len(s.models) + 1],
          navigator |-> navigateToRoot([s.navigator EXCEPT !.tree = Len(s.models) + 1]),
          formatter |-> [tree |-> Len(s.models) + 1]]

\* GedcomShellNavigator.reload with the Tree that was built, None when the
\* parse threw: the catch leaves every component as it was
reloadWith(s, built) ==
    IF built = None THEN s
    ELSE [models |-> Append(s.models, Get(built)),
          app |-> [tree |-> Len(s.models) + 1],
          navigator |-> clearHistory(navigateToRoot(
                            [s.navigator EXCEPT !.tree = Len(s.models) + 1])),
          formatter |-> [tree |-> Len(s.models) + 1]]

\* a reload that takes the Tree of a parse that threw
reload_PartialTree(s, file) ==
    reloadWith(s, IF file = None THEN None ELSE Some(parse(Get(file)).tree))

reload(s, file) == reloadWith(s, newTree(file))

\* the most entries of the history, and the most reloads that build a Tree
MaxHistory == 2
MaxReloads == 1

N_Al == <<"A", "l">>
N_Alba == <<"A", "l", "b", "a">>
N_al == <<"a", "l">>
N_alba == <<"a", "l", "b", "a">>

\* the files on disk: two individuals and two families; one individual and one
\* family; a file whose parse throws
ShellFile1 ==
    <<Line3(<<"0">>, X_I1, T_INDI), Line3(<<"1">>, T_NAME, N_Al),
      Line3(<<"0">>, X_I2, T_INDI), Line3(<<"1">>, T_NAME, N_Alba),
      Line3(<<"0">>, X_F1, T_FAM), Line3(<<"0">>, X_F2, T_FAM), L_TRLR>>

ShellFile2 ==
    <<Line3(<<"0">>, X_I1, T_INDI), Line3(<<"1">>, T_NAME, N_Al),
      Line3(<<"0">>, X_F1, T_FAM), L_TRLR>>

ShellFileBad == <<L_INDI, L_ADDR>>

\* what is at the path of the file: no file, or its lines
Disks == {None, Some(ShellFile1), Some(ShellFile2), Some(ShellFileBad)}

CdTargets == {C_tilde, C_up, X_I1, X_I2, X_I3, X_F1, X_F2, X_F3, N_al, N_alba}

\* loadFile of ShellFile1, then initialize
InitShell ==
    /\ pc = "loop"
    /\ lines = <<>>
    /\ tree = EmptyTree
    /\ currentRecord = None
    /\ currentEvent = 0
    /\ stack = <<>>
    /\ heap = <<>>
    /\ query = NoQuery
    /\ result = <<>>
    /\ frames = <<>>
    /\ out = <<>>
    /\ visited = {}
    /\ fictionalDateContext = None
    /\ disk = Some(ShellFile1)
    /\ models = <<parse(ShellFile1).tree>>
    /\ app = [tree |-> 1]
    /\ navigator = NewNavigator(1)
    /\ formatter = [tree |-> 1]

\* the command that ran last and the place it was given at
Command(name) == [name |-> name, id |-> getCurrentContext(navigator), depth |-> 0]

\* the user gives cd target: r is the navigator after Commands.cd and the
\* message
CdTo(target, r) ==
    /\ navigator' = r.nav
    /\ result' = r.returned
    /\ query' = Command(IF target = C_up THEN "cd .." ELSE "cd")
    /\ UNCHANGED <<parseVars, walkVars, fictionalDateContext, disk, models, app,
                   formatter>>

Cd(target) ==
    /\ Len(navigator.history) < MaxHistory \/ target \in {C_tilde, C_up}
    /\ CdTo(target, cd(navigator, models, target))

\* what GedcomShellNavigator.reload returns for the application r it leaves:
\* true when a Tree was built, false from its catch; it throws only when no
\* file was ever loaded, and the shell starts after loadFile
reloadReturned(s, r) == IF Len(r.models) > Len(s.models) THEN "true" ELSE "false"

\* Commands.reload: this.app is set by the constructor; the message after
\* this.app.reload() came back, whose value is not looked at, or after it threw
reloadMessage(returned) ==
    IF returned = "throw" THEN "Failed to reload"
    ELSE "File reloaded successfully. Navigation reset to root."

\* the user gives reload: r is the application after GedcomShellNavigator.reload;
\* the result is the message of the command with what app.reload() returned
ReloadTo(r) ==
    /\ Len(models) <= MaxReloads \/ Len(r.models) = Len(models)
    /\ models' = r.models
    /\ app' = r.app
    /\ navigator' = r.navigator
    /\ formatter' = r.formatter
    /\ result' = [returned |-> reloadMessage(reloadReturned(Shell, r)),
                  reloaded |-> reloadReturned(Shell, r)]
    /\ query' = Command("reload")
    /\ UNCHANGED <<parseVars, walkVars, fictionalDateContext, disk>>

Reload == ReloadTo(reload(Shell, disk))

\* the file changes on disk between two commands
EditFile(file) ==
    /\ file # disk
    /\ disk' = file
    /\ UNCHANGED <<parseVars, queryVars, walkVars, fictionalDateContext, models, app,
                   navigator, formatter>>

NextShell ==
    \/ \E target \in CdTargets : Cd(target)
    \/ Reload
    \/ \E file \in Disks : EditFile(file)

SpecShell == InitShell /\ [][NextShell]_vars

\* the navigator is at root with an empty history
AtRoot(nav) ==
    /\ nav.currentIndividual = None
    /\ nav.currentFamily = None
    /\ nav.currentPath = P_root
    /\ nav.history = <<>>

\* C12: after a reload that built a Tree, wherever it was given, the
\* navigator is at root with an empty history and holds no individual or
\* family, and the application, the navigator and the formatter refer to
\* the Tree that was built last
C12_ReloadDiscards ==
    (query.name = "reload" /\ result.reloaded = "true") =>
        /\ AtRoot(navigator)
        /\ Len(models) >= 2
        /\ app.tree = Len(models)
        /\ navigator.tree = Len(models)
        /\ formatter.tree = Len(models)

\* reload was given at the individual I2, two steps from root, and built a
\* Tree that has no I2
C12_Witness ==
    /\ query.name = "reload" /\ result.reloaded = "true"
    /\ query.id = [type |-> "individual", id |-> X_I2]
    /\ getIndividual(models[1], X_I2) # None
    /\ getIndividual(models[app.tree], X_I2) = None
    /\ AtRoot(navigator)

\* the application, the navigator and the formatter refer to one Tree, and it
\* is the Tree of the whole parse of a file
SameCompleteModel ==
    /\ app.tree = navigator.tree
    /\ formatter.tree = navigator.tree
    /\ app.tree \in 1..Len(models)
    /\ \E file \in Disks : newTree(file) = Some(models[app.tree])

\* C13: between commands the three components refer to the same Tree of a
\* whole parse, and a reload whose parse fails changes no reference, not the
\* location and not the history
C13_NeverTorn ==
    /\ []SameCompleteModel
    /\ [][(query'.name = "reload" /\ result'.reloaded = "false")
            => UNCHANGED <<models, app, navigator, formatter>>]_vars

\* reload failed on the file whose parse throws, given at a family one step
\* from root
C13_Witness ==
    /\ query.name = "reload" /\ result.reloaded = "false"
    /\ disk = Some(ShellFileBad)
    /\ navigator.currentFamily = Some([model |-> 1, id |-> X_F1])
    /\ Len(navigator.history) = 1
    /\ app.tree = 1

\* C14: cd .. after a navigation that succeeded makes the place the
\* navigation started from the current one again
C14_BackToPrevious ==
    [][(/\ query.name = "cd"
        /\ result \in {"Navigated to", "Navigated to family"}
        /\ query'.name = "cd ..")
       => getCurrentContext(navigator') = query.id]_vars

\* from the individual I1 to the family F1, and cd .. has led to root
C14_LandsAtRoot ==
    /\ query.name = "cd .." /\ result = "Navigated back"
    /\ query.id = [type |-> "family", id |-> X_F1]
    /\ getCurrentContext(navigator) = [type |-> "root", id |-> <<>>]
    /\ navigator.history = <<[type |-> "individual", id |-> None]>>

----------------------------------------------------------------------------
(* Tree: getStats and resolveNote *)

\* individuals.map((i) => i.birth?.date).filter(Boolean).map(parseGedcomDate)
\* .filter(Boolean), from the k-th individual; which is "birth" or "death"
EventDate(ind, which) ==
    IF which = "birth"
    THEN (IF ind.birth = None THEN <<>> ELSE Get(ind.birth).date)
    ELSE (IF ind.death = None THEN <<>> ELSE Get(ind.death).date)

RECURSIVE DatesFrom(_, _, _)
DatesFrom(tr, which, k) ==
    IF k > Len(tr.individuals) THEN <<>>
    ELSE (IF EventDate(tr.individuals[k].val, which) = <<>>
             \/ parseGedcomDate(EventDate(tr.individuals[k].val, which)) = None
          THEN <<>>
          ELSE <<Get(parseGedcomDate(EventDate(tr.individuals[k].val, which)))>>)
         \o DatesFrom(tr, which, k + 1)

\* birthsByCalendar after the dates from the k-th on were added: an object as
\* the sequence of its keys and values, in the order the keys were added
RECURSIVE ByCalendar(_, _, _)
ByCalendar(dates, byCalendar, k) ==
    IF k > Len(dates) THEN byCalendar
    ELSE ByCalendar(dates,
                    IF MapHas(byCalendar, dates[k].calendar)
                    THEN MapSet(byCalendar, dates[k].calendar,
                                Append(Get(MapGet(byCalendar, dates[k].calendar)),
                                       dates[k].year))
                    ELSE Append(byCalendar, [key |-> dates[k].calendar,
                                             val |-> <<dates[k].year>>]),
                    k + 1)

Years(dates) == [k \in 1..Len(dates) |-> dates[k].year]
Keys(m) == [k \in 1..Len(m) |-> m[k].key]

\* Math.min(...years), Math.max(...years): None for null when there is no year
MinYear(years) ==
    IF years = <<>> THEN None
    ELSE Some(CHOOSE y \in {years[k] : k \in 1..Len(years)} :
                  \A k \in 1..Len(years) : y <= years[k])
MaxYear(years) ==
    IF years = <<>> THEN None
    ELSE Some(CHOOSE y \in {years[k] : k \in 1..Len(years)} :
                  \A k \in 1..Len(years) : y >= years[k])

\* list.filter((v, i, a) => a.indexOf(v) === i)
RECURSIVE Unique(_, _)
Unique(list, k) ==
    IF k > Len(list) THEN <<>>
    ELSE (IF \E h \in 1..(k - 1) : list[h] = list[k] THEN <<>> ELSE <<list[k]>>)
         \o Unique(list, k + 1)

\* individuals.filter(...).length for the three tests on sex
SexCount(tr, Test(_)) ==
    Cardinality({k \in 1..Len(tr.individuals) : Test(tr.individuals[k].val.sex)})

IsMale(sex) == sex = Some(<<"M">>)
IsFemale(sex) == sex = Some(<<"F">>)
IsUnknownSex(sex) == sex = None \/ sex = Some(<<"U">>) \/ sex = Some(<<>>)

StatsOf(tr, birthDates, deathDates) ==
    [totalIndividuals |-> Len(tr.individuals),
     totalFamilies |-> Len(tr.families),
     totalNotes |-> Len(tr.notes),
     maleCount |-> SexCount(tr, IsMale),
     femaleCount |-> SexCount(tr, IsFemale),
     unknownGender |-> SexCount(tr, IsUnknownSex),
     earliestBirth |-> MinYear(Years(birthDates)),
     latestBirth |-> MaxYear(Years(birthDates)),
     earliestDeath |-> MinYear(Years(deathDates)),
     latestDeath |-> MaxYear(Years(deathDates)),
     birthsByCalendar |-> ByCalendar(birthDates, <<>>, 1),
     deathsByCalendar |-> ByCalendar(deathDates, <<>>, 1),
     calendars |-> Unique(Keys(ByCalendar(birthDates, <<>>, 1))
                            \o Keys(ByCalendar(deathDates, <<>>, 1)), 1)]

getStats(tr) == StatsOf(tr, DatesFrom(tr, "birth", 1), DatesFrom(tr, "death", 1))

\* resolveNote of a string: note?.text || noteRef for a reference, the string
\* itself for a text
resolveNote(tr, noteRef) ==
    IF StartsWith(noteRef, "@") /\ getNote(tr, noteRef) # None
       /\ Truthy(Get(getNote(tr, noteRef)).val.text)
    THEN Get(Get(getNote(tr, noteRef)).val.text)
    ELSE noteRef

----------------------------------------------------------------------------
(* Every query of a Tree, on trees with names, sexes, dates and notes *)

\* Map.prototype.get leaves the map as it is
AfterGet_Adds(m, key) ==
    IF MapHas(m, key) THEN m ELSE Append(m, [key |-> key, val |-> EmptyData])

AfterGet(m, key) == m

\* the Tree after the method name was called with id: the methods assign to
\* no field of the Tree and to no property of an object of its maps; the
\* methods with an id begin with a get on a map
TreeAfter(tr, name, id) ==
    CASE name \in {"getIndividual", "getParents", "getChildren", "getSpouses",
                   "getSiblings"} ->
              [tr EXCEPT !.individuals = AfterGet(@, id)]
      [] name = "getFamily" -> [tr EXCEPT !.families = AfterGet(@, id)]
      [] name = "getNote" -> [tr EXCEPT !.notes = AfterGet(@, id)]
      [] name = "resolveNote" /\ StartsWith(id, "@") ->
              [tr EXCEPT !.notes = AfterGet(@, id)]
      [] OTHER -> tr

N_Lee == <<"L", "e", "e">>
N_hello == <<"h", "e", "l", "l", "o">>

\* the DATE lines of a BIRT or DEAT: none, or one with the date
EventLines(tag, date) ==
    IF date = None THEN <<>>
    ELSE <<Line2(<<"1">>, tag), Line3(<<"2">>, T_DATE, Get(date))>>

\* a file of two individuals, a family with a wife that has no record, and a
\* note
QueryFile(birth, death) ==
    <<Line3(<<"0">>, X_I1, T_INDI), Line3(<<"1">>, T_NAME, N_Al \o SP \o <<"/">> \o N_Lee \o <<"/">>),
      Line3(<<"1">>, T_SEX, <<"M">>)>>
    \o EventLines(T_BIRT, birth)
    \o <<Line3(<<"1">>, T_FAMC, X_F1),
         Line3(<<"0">>, X_I2, T_INDI), Line3(<<"1">>, T_NAME, N_Alba)>>
    \o EventLines(T_BIRT, Some(JoinTokens(<<D_1979, D_AG>>, 1)))
    \o EventLines(T_DEAT, death)
    \o <<Line3(<<"1">>, T_FAMS, X_F1),
         Line3(<<"0">>, X_F1, T_FAM), Line3(<<"1">>, T_HUSB, X_I2),
         Line3(<<"1">>, T_WIFE, X_I3), Line3(<<"1">>, T_CHIL, X_I1),
         Line3(<<"0">>, X_N1, T_NOTE) \o SP \o N_hello, L_TRLR>>

QueryBirths ==
    {None, Some(JoinTokens(<<D_20, D_JUN, D_1979>>, 1)),
     Some(JoinTokens(<<M_ABT, D_10191, D_AG>>, 1)),
     Some(JoinTokens(<<D_20, D_FOO, D_1979>>, 1))}

QueryDeaths ==
    {None, Some(JoinTokens(<<D_3, D_MAR, D_2001>>, 1)),
     Some(JoinTokens(<<D_2001, D_AG>>, 1))}

\* parse() has returned a, and its Tree is the Tree of the queries
LoadedFrom(a) ==
    /\ ~a.thrown
    /\ pc = "returned"
    /\ lines = <<>>
    /\ tree = a.tree
    /\ currentRecord = a.currentRecord
    /\ currentEvent = a.currentEvent
    /\ stack = a.stack
    /\ heap = a.heap

InitQueries ==
    /\ \E birth \in QueryBirths, death \in QueryDeaths :
          LoadedFrom(parse(QueryFile(birth, death)))
    /\ query = NoQuery
    /\ result = <<>>
    /\ frames = <<>>
    /\ out = <<>>
    /\ visited = {}
    /\ NoShell

\* a call of a method of the Tree: the call, what it returns, and the Tree
\* after it
Method(name, id, returned) ==
    /\ query = NoQuery
    /\ query' = [name |-> name, id |-> id, depth |-> 0]
    /\ result' = returned
    /\ tree' = TreeAfter(tree, name, id)
    /\ UNCHANGED <<pc, lines, currentRecord, currentEvent, stack, heap, walkVars,
                   shellVars>>

NoteRefs == {X_N1, X_N2, N_hello}
NameQueries == {N_al, N_alba, N_Lee, <<"z">>}

ById(id) ==
    \/ Method("getIndividual", id, getIndividual(tree, id))
    \/ Method("getFamily", id, getFamily(tree, id))
    \/ Method("getNote", id, getNote(tree, id))
    \/ Method("getParents", id, getParents(tree, id, None))
    \/ Method("getChildren", id, getChildren(tree, id, None))
    \/ Method("getSpouses", id, getSpouses(tree, id))
    \/ Method("getSiblings", id, getSiblings(tree, id))

FindIndividualsByName(q) ==
    Method("findIndividualsByName", q, findIndividualsByName(tree, q))
GetAllIndividuals == Method("getAllIndividuals", <<>>, getAllIndividuals(tree))
GetAllFamilies == Method("getAllFamilies", <<>>, getAllFamilies(tree))
GetRoots == Method("getRootIndividuals", <<>>, getRootIndividuals(tree))
GetStats == Method("getStats", <<>>, getStats(tree))
ResolveNote(noteRef) == Method("resolveNote", noteRef, resolveNote(tree, noteRef))

NextQueries ==
    \/ \E id \in IndividualIds \cup FamilyIds \cup NoteIds : ById(id)
    \/ \E q \in NameQueries : FindIndividualsByName(q)
    \/ GetAllIndividuals
    \/ GetAllFamilies
    \/ GetRoots
    \/ GetStats
    \/ \E noteRef \in NoteRefs : ResolveNote(noteRef)

SpecQueries == InitQueries /\ [][NextQueries]_vars

C11_DanglingLookup ==
    /\ query = [name |-> "getParents", id |-> X_I3, depth |-> 0]
    /\ result = <<>>
    /\ getIndividual(tree, X_I3) = None

----------------------------------------------------------------------------
(* Encoding detection of parse() *)

\* A buffer is a sequence of bytes, 0..255.

\* the characters of the codes 32 to 126, in the order of their codes; the
\* two quotation marks that a string of the model cannot hold have a name
AsciiChars ==
    <<" ", "!", "\"", "#", "$", "%", "&", "apostrophe", "(", ")", "*", "+",
      ",", "-", ".", "/", "0", "1", "2", "3", "4", "5", "6", "7",
      "8", "9", ":", ";", "<", "=", ">", "?", "@", "A", "B", "C",
      "D", "E", "F", "G", "H", "I", "J", "K", "L", "M", "N", "O",
      "P", "Q", "R", "S", "T", "U", "V", "W", "X", "Y", "Z", "[",
      "\\", "]", "^", "_", "backtick", "a", "b", "c", "d", "e", "f", "g",
      "h", "i", "j", "k", "l", "m", "n", "o", "p", "q", "r", "s",
      "t", "u", "v", "w", "x", "y", "z", "{", "|", "}", "~">>

\* the code of a character of a file of the model
CodeOf(c) ==
    IF c = "\n" THEN 10
    ELSE IF c = "\t" THEN 9
    ELSE 31 + CHOOSE k \in 1..Len(AsciiChars) : AsciiChars[k] = c

Bytes(s) == [k \in 1..Len(s) |-> CodeOf(s[k])]

\* a byte read as ascii: the high bit is dropped; a question mark stands for
\* a control character other than tab, line feed and carriage return
AsciiOf(byte) ==
    IF byte % 128 \in 32..126 THEN AsciiChars[(byte % 128) - 31]
    ELSE IF byte % 128 = 10 THEN "\n"
    ELSE IF byte % 128 = 13 THEN "\r"
    ELSE IF byte % 128 = 9 THEN "\t"
    ELSE "?"

\* BUFFER_SIZES: the program has HEADER_PREVIEW 1000 and ANSEL_SCAN_LIMIT
\* 10000; the model scales both to the size of its files
HEADER_PREVIEW == 24
ANSEL_SCAN_LIMIT == 30

Min(x, y) == IF x < y THEN x ELSE y

\* buffer.slice(0, BUFFER_SIZES.HEADER_PREVIEW).toString(ascii)
headerPreview(buffer) ==
    [k \in 1..Min(Len(buffer), HEADER_PREVIEW) |-> AsciiOf(buffer[k])]

\* \s and [\w-] of the pattern of the CHAR line
IsWhite(c) == c \in {" ", "\t", "\n", "\r"}
IsTokenChar(c) == IsWord(c) \/ c = "-"

RECURSIVE RunWhite(_, _)
RunWhite(s, i) == IF i <= Len(s) /\ IsWhite(s[i]) THEN 1 + RunWhite(s, i + 1) ELSE 0

RECURSIVE RunToken(_, _)
RunToken(s, i) == IF i <= Len(s) /\ IsTokenChar(s[i]) THEN 1 + RunToken(s, i + 1) ELSE 0

\* /1\s+CHAR\s+([\w-]+)/ from position i: None, or the group
charToken(s, j) ==
    IF RunToken(s, j) = 0 THEN None ELSE Some(SubSeq(s, j, j + RunToken(s, j) - 1))

charSecondGap(s, j) ==
    IF RunWhite(s, j) = 0 THEN None ELSE charToken(s, j + RunWhite(s, j))

charTag(s, j) ==
    IF j + 3 <= Len(s) /\ SubSeq(s, j, j + 3) = T_CHAR THEN charSecondGap(s, j + 4)
    ELSE None

charMatchAt(s, i) ==
    IF s[i] = "1" /\ RunWhite(s, i + 1) > 0 THEN charTag(s, i + 1 + RunWhite(s, i + 1))
    ELSE None

\* headerPreview.match(...): the leftmost match
charMatch(s) ==
    IF \E i \in 1..Len(s) : charMatchAt(s, i) # None
    THEN charMatchAt(s, CHOOSE i \in 1..Len(s) :
                           /\ charMatchAt(s, i) # None
                           /\ \A h \in 1..(i - 1) : charMatchAt(s, h) = None)
    ELSE None

\* an isAnsel that scans the whole buffer
isAnsel_NoLimit(buffer) ==
    \E i \in 1..Len(buffer) : buffer[i] >= 224 /\ buffer[i] <= 254

\* isAnsel: a byte 0xE0..0xFE among the first ANSEL_SCAN_LIMIT bytes
isAnsel(buffer) ==
    \E i \in 1..Min(Len(buffer), ANSEL_SCAN_LIMIT) : buffer[i] >= 224 /\ buffer[i] <= 254

E_ANSEL == <<"A", "N", "S", "E", "L">>
E_ASCII == <<"A", "S", "C", "I", "I">>
E_UNICODE == <<"U", "N", "I", "C", "O", "D", "E">>
E_UTF_8 == <<"U", "T", "F", "-", "8">>
E_UTF8 == <<"U", "T", "F", "8">>
E_UTF_16 == <<"U", "T", "F", "-", "1", "6">>
E_UTF16 == <<"U", "T", "F", "1", "6">>

\* the switch on gedcomEncoding: the decoding that parse() applies
strategyOf(gedcomEncoding, buffer) ==
    CASE gedcomEncoding = E_ANSEL -> IF isAnsel(buffer) THEN "decodeAnsel" ELSE "latin1"
      [] gedcomEncoding = E_ASCII -> "ascii"
      [] gedcomEncoding \in {E_UNICODE, E_UTF_8, E_UTF8} -> "utf-8"
      [] gedcomEncoding \in {E_UTF_16, E_UTF16} -> "utf-16"
      [] OTHER -> "latin1"

\* the encoding detection of parse(): utf-8 when no CHAR line is found
detectEncoding(buffer) ==
    IF charMatch(headerPreview(buffer)) = None THEN "utf-8"
    ELSE strategyOf(toUpperCase(Get(charMatch(headerPreview(buffer)))), buffer)

----------------------------------------------------------------------------
(* Files for the encoding detection *)

\* the most bytes between the CHAR line and the byte that is looked for
MaxFill == 12

E_ansel == <<"a", "n", "s", "e", "l">>
E_utf_8 == <<"u", "t", "f", "-", "8">>
E_LATIN1 == <<"L", "A", "T", "I", "N", "1">>

\* the token of the CHAR line of a file, None for a file without the line
EncodingTokens ==
    {None, Some(E_ANSEL), Some(E_ansel), Some(E_ASCII), Some(E_UNICODE),
     Some(E_UTF_8), Some(E_utf_8), Some(E_UTF8), Some(E_UTF_16), Some(E_UTF16),
     Some(E_LATIN1)}

\* the length of a line of x before the CHAR line: none, one that leaves the
\* token in the preview, one that cuts the token and one that cuts the tag
Pads == {0, 3, 5, 12}

\* the byte that is looked for: A, 0xDF, 0xE0, 0xE2, 0xFE, 0xFF
LookedForBytes == {65, 223, 224, 226, 254, 255}

EncodingFiles ==
    [pad : Pads, token : EncodingTokens, fill : 0..MaxFill, byte : LookedForBytes]

PadLine(n) == IF n = 0 THEN <<>> ELSE [k \in 1..n |-> CodeOf("x")] \o <<10>>

CharLine(token) ==
    IF token = None THEN <<>>
    ELSE Bytes(Line3(<<"1">>, T_CHAR, Get(token))) \o <<10>>

\* the bytes of the file f: 0 HEAD, the line of x, the CHAR line, then a line
\* of f.fill letters A and the byte f.byte
BufferOf(f) ==
    Bytes(Line2(<<"0">>, T_HEAD)) \o <<10>> \o PadLine(f.pad) \o CharLine(f.token)
    \o [k \in 1..f.fill |-> 65] \o <<f.byte, 10>>

\* parse() detects the encoding of the file f
DetectEncoding(f) == PureCall("detectEncoding", f, detectEncoding(BufferOf(f)))

\* the one detection of a parse
DetectSomeEncoding ==
    /\ query = NoQuery
    /\ \E f \in EncodingFiles : DetectEncoding(f)

NextEncoding == DetectSomeEncoding

SpecEncoding == Init /\ [][NextEncoding]_vars

\* the place of the last byte of the token of the CHAR line, and of the byte
\* that is looked for
TokenEnd(f) == Len(Bytes(Line2(<<"0">>, T_HEAD))) + 1 + Len(PadLine(f.pad))
               + Len(CharLine(f.token)) - 1
BytePlace(f) == TokenEnd(f) + 1 + f.fill + 1

\* the CHAR line is in the header preview
Declared(f) == f.token # None /\ TokenEnd(f) <= HEADER_PREVIEW

\* a byte 0xE0..0xFE lies in the scan window
MarkInWindow(f) == f.byte \in 224..254 /\ BytePlace(f) <= ANSEL_SCAN_LIMIT

\* C20: for a CHAR line in the header preview, UNICODE, UTF-8 and UTF8 give
\* utf-8 whatever the bytes, ASCII gives ascii, UTF-16 and UTF16 give utf-16,
\* and ANSEL gives the ANSEL decoder exactly when a byte 0xE0..0xFE lies in
\* the scan window and latin1 otherwise
C20_EncodingStrategy ==
    (query.name = "detectEncoding" /\ Declared(query.id)) =>
        /\ query.id.token \in {Some(E_UNICODE), Some(E_UTF_8), Some(E_UTF8)}
             => result = "utf-8"
        /\ query.id.token = Some(E_ASCII) => result = "ascii"
        /\ query.id.token \in {Some(E_UTF_16), Some(E_UTF16)} => result = "utf-16"
        /\ query.id.token = Some(E_ANSEL)
             => result = IF MarkInWindow(query.id) THEN "decodeAnsel" ELSE "latin1"

\* 1 CHAR ANSEL and the byte 0xE2 in the scan window: the ANSEL decoder
C20_Witness ==
    /\ query.name = "detectEncoding"
    /\ query.id.token = Some(E_ANSEL) /\ query.id.byte = 226
    /\ Declared(query.id) /\ MarkInWindow(query.id)
    /\ result = "decodeAnsel"

\* 1 CHAR ANSEL and the byte 0xE2 past the scan window: latin1
C20_PastWindow ==
    /\ query.name = "detectEncoding"
    /\ query.id.token = Some(E_ANSEL) /\ query.id.byte = 226
    /\ Declared(query.id) /\ BytePlace(query.id) > ANSEL_SCAN_LIMIT
    /\ result = "latin1"

\* 1 CHAR UTF-8 and the byte 0xE2 in the scan window: utf-8
C20_Utf8WithMark ==
    /\ query.name = "detectEncoding"
    /\ query.id.token = Some(E_UTF_8) /\ MarkInWindow(query.id)
    /\ Declared(query.id)
    /\ result = "utf-8"

\* the file has no CHAR line
NoCharLine(f) == f.token = None

\* the CHAR line is in the header preview and its token is none of the seven
\* that the switch knows
Unrecognised(f) == Declared(f) /\ f.token = Some(E_LATIN1)

\* C21: a file without a CHAR line in the header preview, and a file whose
\* CHAR token is none of ANSEL, ASCII, UNICODE, UTF-8, UTF8, UTF-16, UTF16,
\* is decoded as latin1
C21_FallbackLatin1 ==
    (query.name = "detectEncoding" /\ (NoCharLine(query.id) \/ Unrecognised(query.id)))
        => result = "latin1"

\* no CHAR line: the file is decoded as utf-8
C21_AbsentGivesUtf8 ==
    /\ query.name = "detectEncoding" /\ NoCharLine(query.id)
    /\ result = "utf-8"

\* 1 CHAR LATIN1: the file is decoded as latin1
C21_UnknownGivesLatin1 ==
    /\ query.name = "detectEncoding" /\ Unrecognised(query.id)
    /\ result = "latin1"

----------------------------------------------------------------------------
(* decodeAnsel *)

\* ANSEL_COMBINING: the combining mark of the bytes 0xE0..0xFE, in the order
\* of the bytes; a character is the number of its UTF-16 code unit
ANSEL_COMBINING ==
    <<777, 768, 769, 770, 771, 772, 774, 775,
      776, 780, 778, 807, 808, 803, 804, 805,
      796, 814, 819, 803, 804, 805, 806, 807,
      808, 813, 817, 814, 803, 803, 787>>

\* ANSEL_PRECOMPOSED: the key is the byte in hexadecimal followed by the next
\* character, written here as the byte and the code of the character; the
\* value is the string of the table, code unit by code unit
ANSEL_PRECOMPOSED ==
    {<<226, 97, <<1043, 1038>>>>,
     <<226, 65, <<1043, 1027>>>>,
     <<226, 101, <<1043, 169>>>>,
     <<226, 69, <<1043, 8240>>>>,
     <<226, 105, <<1043, 173>>>>,
     <<226, 73, <<1043, 1036>>>>,
     <<226, 111, <<1043, 1110>>>>,
     <<226, 79, <<1043, 8220>>>>,
     <<226, 117, <<1043, 1108>>>>,
     <<226, 85, <<1043, 1113>>>>,
     <<226, 121, <<1043, 1029>>>>,
     <<226, 89, <<1043, 1116>>>>,
     <<225, 97, <<1043, 160>>>>,
     <<225, 65, <<1043, 1026>>>>,
     <<225, 101, <<1043, 1025>>>>,
     <<225, 69, <<1043, 8364>>>>,
     <<225, 105, <<1043, 172>>>>,
     <<225, 73, <<1043, 1034>>>>,
     <<225, 111, <<1043, 1030>>>>,
     <<225, 79, <<1043, 8217>>>>,
     <<225, 117, <<1043, 8470>>>>,
     <<225, 85, <<1043, 8482>>>>,
     <<227, 97, <<1043, 1118>>>>,
     <<227, 65, <<1043, 8218>>>>,
     <<227, 101, <<1043, 1028>>>>,
     <<227, 69, <<1043, 1033>>>>,
     <<227, 105, <<1043, 174>>>>,
     <<227, 73, <<1043, 1035>>>>,
     <<227, 111, <<1043, 1169>>>>,
     <<227, 79, <<1043, 8221>>>>,
     <<227, 117, <<1043, 187>>>>,
     <<227, 85, <<1043, 8250>>>>,
     <<228, 97, <<1043, 1032>>>>,
     <<228, 65, <<1043, 1107>>>>,
     <<228, 110, <<1043, 177>>>>,
     <<228, 78, <<1043, 8216>>>>,
     <<228, 111, <<1043, 181>>>>,
     <<228, 79, <<1043, 8226>>>>,
     <<232, 97, <<1043, 164>>>>,
     <<232, 65, <<1043, 8222>>>>,
     <<232, 101, <<1043, 171>>>>,
     <<232, 69, <<1043, 8249>>>>,
     <<232, 105, <<1043, 1031>>>>,
     <<232, 73, <<1043, 1039>>>>,
     <<232, 111, <<1043, 182>>>>,
     <<232, 79, <<1043, 8211>>>>,
     <<232, 117, <<1043, 1112>>>>,
     <<232, 85, <<1043, 1114>>>>,
     <<232, 121, <<1043, 1111>>>>,
     <<234, 97, <<1043, 1168>>>>,
     <<234, 65, <<1043, 8230>>>>,
     <<235, 99, <<1043, 167>>>>,
     <<235, 67, <<1043, 8225>>>>}

IsMark(byte) == byte >= 224 /\ byte <= 254

\* ANSEL_COMBINING[byte]
combiningOf(byte) == ANSEL_COMBINING[byte - 223]

\* ANSEL_PRECOMPOSED[key], None when the table has no such key
precomposedOf(byte, nextByte) ==
    IF \E e \in ANSEL_PRECOMPOSED : e[1] = byte /\ e[2] = nextByte
    THEN Some((CHOOSE e \in ANSEL_PRECOMPOSED : e[1] = byte /\ e[2] = nextByte)[3])
    ELSE None

\* what the pair of a mark byte and the next byte pushes: the precomposed
\* string, else the next character followed by the combining mark
decodePair(byte, nextByte) ==
    IF precomposedOf(byte, nextByte) # None THEN Get(precomposedOf(byte, nextByte))
    ELSE <<nextByte, combiningOf(byte)>>

\* what a byte outside a pair pushes: bytes 0x80..0x9F push nothing
decodeByte(byte) == IF byte < 128 \/ byte >= 160 THEN <<byte>> ELSE <<>>

\* the while loop of decodeAnsel from the place i (from 1) of the buffer
RECURSIVE decodeFrom(_, _, _)
decodeFrom(buffer, i, decoded) ==
    IF i > Len(buffer) THEN decoded
    ELSE IF IsMark(buffer[i]) /\ i + 1 <= Len(buffer)
         THEN decodeFrom(buffer, i + 2, decoded \o decodePair(buffer[i], buffer[i + 1]))
         ELSE decodeFrom(buffer, i + 1, decoded \o decodeByte(buffer[i]))

decodeAnsel(buffer) == decodeFrom(buffer, 1, <<>>)

----------------------------------------------------------------------------
(* Buffers for decodeAnsel *)

\* the most bytes before and after the pair
MaxPlain == 2

\* bytes that are no marks: a, a byte that is dropped, a byte that is kept
PlainBytes == {97, 133, 169}

\* the mark bytes and the bytes that follow them: a, z, line feed, a byte that
\* is dropped alone, a byte that is kept alone, marks, 0xFF
MarkBytes == {224, 226, 234, 254}
BaseBytes == {97, 122, 10, 133, 169, 255} \cup MarkBytes

PlainSeqs(n) == UNION {[1..k -> PlainBytes] : k \in 0..n}

\* a buffer: plain bytes, a mark byte, the next byte (None at the end of the
\* buffer) and plain bytes
AnselBuffers ==
    [before : PlainSeqs(MaxPlain), mark : MarkBytes,
     base : {None} \cup {Some(b) : b \in BaseBytes}, after : PlainSeqs(MaxPlain)]

AnselBytes(f) == f.before \o <<f.mark>> \o f.base \o (IF f.base = None THEN <<>> ELSE f.after)

DecodeAnsel(f) == PureCall("decodeAnsel", f, decodeAnsel(AnselBytes(f)))

DecodeSomeBuffer ==
    /\ query = NoQuery
    /\ \E f \in AnselBuffers : DecodeAnsel(f)

NextAnsel == DecodeSomeBuffer

SpecAnsel == Init /\ [][NextAnsel]_vars

\* the characters of bytes that are no marks
Plain(bytes) == SelectSeq(bytes, LAMBDA b : b < 128 \/ b >= 160)

HasPrecomposed(f) == \E e \in ANSEL_PRECOMPOSED : e[1] = f.mark /\ e[2] = Get(f.base)

\* what the decoding has between the characters of the bytes before and after
UnitOf(f, decoded) ==
    SubSeq(decoded, Len(Plain(f.before)) + 1, Len(decoded) - Len(Plain(f.after)))

\* C22: a mark byte and the byte after it are decoded as one unit of two
\* bytes: one precomposed character when the table has the pair, else the
\* base character followed by the combining mark of the mark byte
C22_PairDecoding ==
    (query.name = "decodeAnsel" /\ query.id.base # None) =>
        /\ result = Plain(query.id.before) \o UnitOf(query.id, result)
                                           \o Plain(query.id.after)
        /\ IF HasPrecomposed(query.id)
           THEN /\ Len(UnitOf(query.id, result)) = 1
                /\ <<query.id.mark, Get(query.id.base), UnitOf(query.id, result)>>
                       \in ANSEL_PRECOMPOSED
           ELSE UnitOf(query.id, result)
                  = <<Get(query.id.base), ANSEL_COMBINING[query.id.mark - 223]>>

\* 0xE2 a: the table has the pair, and two characters are decoded
C22_TwoCharacters ==
    /\ query.name = "decodeAnsel"
    /\ query.id.mark = 226 /\ query.id.base = Some(97)
    /\ query.id.before = <<>> /\ query.id.after = <<>>
    /\ Len(result) = 2 /\ result = <<1043, 1038>>

\* 0xE2 z: the table has no such pair; z and then the acute accent, and the
\* bytes after the pair are decoded on their own
C22_BaseThenMark ==
    /\ query.name = "decodeAnsel"
    /\ query.id.mark = 226 /\ query.id.base = Some(122)
    /\ query.id.before = <<97>> /\ query.id.after = <<97, 169>>
    /\ result = <<97, 122, 769, 97, 169>>

\* 0xE2 0xE2 a: the second mark byte is the base of the first
C22_MarkAsBase ==
    /\ query.name = "decodeAnsel"
    /\ query.id.mark = 226 /\ query.id.base = Some(226)
    /\ query.id.before = <<>> /\ query.id.after = <<97>>
    /\ result = <<226, 769, 97>>

----------------------------------------------------------------------------
(* Lines for the tokenizer *)

\* the parts of a line, well-formed and not: blanks before the level, the
\* level, the blanks after it, the XREF with its blanks, the tag and the rest
LeadParts == {<<>>, <<" ">>}
LevelParts == {<<>>, <<"0">>, <<"0", "1">>, <<"1", "2">>}
GapParts == {<<>>, <<" ">>, <<" ", " ">>, <<"\t">>}
XrefParts ==
    {<<>>, <<"@", "A", "@", " ">>, <<"@", "A", "@">>, <<"@", "A", "@", " ", "\t">>,
     <<"@", "@", " ">>, <<"@", "A", " ">>}
TagParts == {<<>>, <<"A">>, <<"A", "_", "1">>, <<"1">>}
ValueParts ==
    {<<>>, <<" ">>, <<" ", "x">>, <<" ", " ", "x", " ", " ", "y", " ">>,
     <<" ", "@", "A", "@">>, <<"/">>, <<"\t", "@", "A", "@", " ", "x">>,
     <<" ", "1", " ", "A">>}

TokenizerLines ==
    {lead \o level \o gap \o xref \o tag \o value :
        lead \in LeadParts, level \in LevelParts, gap \in GapParts,
        xref \in XrefParts, tag \in TagParts, value \in ValueParts}

ParseLine(line) == PureCall("parseLine", line, parseLine(line))

ParseSomeLine ==
    /\ query = NoQuery
    /\ \E line \in TokenizerLines : ParseLine(line)

NextLine == ParseSomeLine

SpecLine == Init /\ [][NextLine]_vars

\* LEVEL [XREF] TAG [VALUE] written from the fields of a token, the level in
\* decimal and one blank between the fields
Synthesized(token) ==
    NatToString(token.level) \o SP
    \o (IF token.xref = None THEN <<>> ELSE Get(token.xref) \o SP)
    \o token.tag
    \o (IF token.value = <<>> THEN <<>> ELSE SP \o token.value)

\* C23: the line written from the fields of an accepted line is accepted and
\* gives the same level, xref, tag and value
C23_RoundTrip ==
    (query.name = "parseLine" /\ result # None)
        => parseLine(Synthesized(Get(result))) = result

\* an accepted line with a zero before the level, an XREF, blanks in rows and
\* a value: the line written from its fields is another line
C23_Witness ==
    /\ query.name = "parseLine" /\ result # None
    /\ Get(result) = [level |-> 1, xref |-> Some(<<"@", "A", "@">>), tag |-> <<"A">>,
                      value |-> <<"x", " ", " ", "y">>]
    /\ Synthesized(Get(result)) # query.id
    /\ parseLine(Synthesized(Get(result))) = result

----------------------------------------------------------------------------
(* Files of records with events *)

\* the most lines of a file of events
MaxEventLines == 5

L_INDI2 == Line3(<<"0">>, X_I2, T_INDI)
L_RESI == Line2(<<"1">>, T_RESI)
L_FAMC == Line3(<<"1">>, T_FAMC, X_F1)
L_CHAN == Line2(<<"1">>, T_CHAN)

CommitLines ==
    {L_INDI, L_INDI2, L_FAM, L_BIRT, L_RESI, L_MARR, L_DATE, L_PLAC, L_FAMC, L_CHAN}

\* one turn of the loop of parse() on the line raw: a line without a token is
\* passed over, a token goes to processLine
TakeLine(raw, a) ==
    /\ lines' = Append(lines, raw)
    /\ pc' = IF a.thrown THEN "thrown" ELSE "loop"
    /\ tree' = a.tree
    /\ currentRecord' = a.currentRecord
    /\ currentEvent' = a.currentEvent
    /\ stack' = a.stack
    /\ heap' = a.heap
    /\ UNCHANGED <<queryVars, walkVars, shellVars>>

ReadEventLine ==
    /\ pc = "loop"
    /\ Len(lines) < MaxEventLines
    /\ \E raw \in CommitLines : TakeLine(raw, Feed(Assembler, parseLine(raw)))

NextEvents == ReadEventLine \/ EndOfInput

SpecEvents == Init /\ [][NextEvents]_vars

\* the tags that open an event in a record of the type, and the tags that
\* commit the open event
EventTags(type) ==
    IF type = T_INDI THEN {T_BIRT, T_DEAT, T_BAPM, T_FCOM, T_GRAD, T_RESI, T_OBJE}
    ELSE IF type = T_FAM THEN {T_MARR, T_DIV}
    ELSE {}

CommitTags(type) ==
    IF type = T_INDI THEN EventTags(type) \cup {T_FAMC, T_FAMS, T_CHAN}
    ELSE IF type = T_FAM THEN EventTags(type) \cup {T_CHAN}
    ELSE {}

\* the last line read and its token
LastLine(ls) == Tok(ls, Len(ls))
LastIsBoundary(ls) == ls # <<>> /\ LastLine(ls) # None /\ Get(LastLine(ls)).level = 0

\* the record d holds the event ev: the field of a single event is the date
\* and place of ev, the list of a repeated event ends with ev; a date or
\* place that was not given is the empty string
Holds(d, ev) ==
    LET plain == [date |-> OrEmpty(ev.date), place |-> OrEmpty(ev.place)]
    IN  CASE ev.type = Some(T_BIRT) -> d.birth = Some(plain)
          [] ev.type = Some(T_MARR) -> d.marriage = Some(plain)
          [] ev.type = Some(T_RESI) ->
                d.residences # <<>> /\ d.residences[Len(d.residences)].date = plain.date
          [] OTHER -> FALSE

----------------------------------------------------------------------------
(* Files of records with inline notes *)

\* the most lines of a file of notes
MaxNoteLines == 5

L_NOTE == Line3(<<"1">>, T_NOTE, <<"t">>)
L_CONT == Line3(<<"2">>, T_CONT, <<"c">>)
L_CONT2 == Line3(<<"2">>, T_CONT, <<"d">>)

NoteLines == {L_INDI, L_FAM, L_NOTE, L_CONT, L_CONT2, L_BIRT, L_FAMC, L_CHAN}

ReadNoteLine ==
    /\ pc = "loop"
    /\ Len(lines) < MaxNoteLines
    /\ \E raw \in NoteLines : TakeLine(raw, Feed(Assembler, parseLine(raw)))

NextNotes == ReadNoteLine \/ EndOfInput

SpecNotes == Init /\ [][NextNotes]_vars

\* the text of the last note of the open record, None when it has none
LastNoteText(rec) ==
    IF rec = None THEN None
    ELSE IF Get(rec).data.notes = <<>> THEN None
    ELSE Get(rec).data.notes[Len(Get(rec).data.notes)].text

\* the line is 1 NOTE with an inline text, or 2 CONT
IsNoteOrCont(raw) ==
    /\ parseLine(raw) # None
    /\ \/ /\ Get(parseLine(raw)).tag = T_NOTE
          /\ Get(parseLine(raw)).value # <<>>
          /\ ~IsReference(Get(parseLine(raw)).value)
       \/ Get(parseLine(raw)).tag = T_CONT

\* C25: in an INDI or FAM record with no event open, a CONT line that
\* follows an inline NOTE line or a CONT line of it appends a newline and its
\* value to the text of that note, whatever the record held before the NOTE
C25_ContExtendsNote ==
    [][(/\ lines' # lines
        /\ lines # <<>> /\ IsNoteOrCont(lines[Len(lines)])
        /\ Get(LastLine(lines')).tag = T_CONT
        /\ IsSome(currentRecord) /\ Get(currentRecord).type \in {T_INDI, T_FAM}
        /\ currentEvent = 0
        /\ LastNoteText(currentRecord) # None)
       => LastNoteText(currentRecord')
             = Some(Get(LastNoteText(currentRecord)) \o NewLine
                       \o Get(LastLine(lines')).value)]_vars

\* 0 @I1@ INDI / 1 NOTE t / 2 CONT c: the text of the note is t
C25_ContinuationDropped ==
    /\ lines = <<L_INDI, L_NOTE, L_CONT>>
    /\ LastNoteText(currentRecord) = Some(<<"t">>)

\* 0 @I1@ INDI / 1 CHAN / 1 NOTE t / 2 CONT c / 2 CONT d: the text of the
\* note is t, c and d on three lines
C25_ContinuationKept ==
    /\ lines = <<L_INDI, L_CHAN, L_NOTE, L_CONT, L_CONT2>>
    /\ LastNoteText(currentRecord) = Some(<<"t", "\n", "c", "\n", "d">>)

----------------------------------------------------------------------------
(* Files of records with a change date *)

\* the most lines of a file of change dates
MaxChangeLines == 5

X_S1 == <<"@", "S", "1", "@">>
L_NOTEREC == Line3(<<"0">>, X_N1, T_NOTE)
L_SUBMREC == Line3(<<"0">>, X_S1, T_SUBM)
L_TIME == Line3(<<"3">>, T_TIME, <<"t">>)

ChangeLines == {L_INDI, L_FAM, L_NOTEREC, L_SUBMREC, L_CHAN, L_DATE, L_TIME, L_BIRT}

ReadChangeLine ==
    /\ pc = "loop"
    /\ Len(lines) < MaxChangeLines
    /\ \E raw \in ChangeLines : TakeLine(raw, Feed(Assembler, parseLine(raw)))

NextChange == ReadChangeLine \/ EndOfInput

SpecChange == Init /\ [][NextChange]_vars

\* the last lines read are 1 CHAN / 2 DATE x / 3 TIME t, in a record that is
\* stored when it is finalized
ChangeDateRead ==
    /\ Len(lines) >= 4
    /\ SubSeq(lines, Len(lines) - 2, Len(lines)) = <<L_CHAN, L_DATE, L_TIME>>
    /\ IsSome(currentRecord)
    /\ Get(currentRecord).type \in StoredTypes

\* C26: the record with 1 CHAN / 2 DATE d / 3 TIME t is finalized with a
\* change date of date d and time t
C26_ChangeDate ==
    ChangeDateRead =>
        /\ IsSome(Get(FinalizedRecord).changeDate)
        /\ Get(Get(FinalizedRecord).changeDate).date = Some(<<"x">>)
        /\ Get(Get(FinalizedRecord).changeDate).time = Some(<<"t">>)

\* 0 @I1@ INDI / 1 CHAN / 2 DATE x / 3 TIME t: the change date is an object
\* without date and time
C26_NoDate ==
    /\ lines = <<L_INDI, L_CHAN, L_DATE, L_TIME>>
    /\ Get(FinalizedRecord).changeDate = Some(EmptyObject)

\* 0 @N1@ NOTE / 1 CHAN / 2 DATE x / 3 TIME t: the change date has the date
\* and no time
C26_DateWithoutTime ==
    /\ lines = <<L_NOTEREC, L_CHAN, L_DATE, L_TIME>>
    /\ Get(FinalizedRecord).changeDate = Some([EmptyObject EXCEPT !.date = Some(<<"x">>)])

----------------------------------------------------------------------------
(* Files with a header *)

\* the most lines of a file with a header
MaxHeaderLines == 5

L_HEAD == Line2(<<"0">>, T_HEAD)
L_GEDC == Line2(<<"1">>, T_GEDC)
L_VERS == Line3(<<"2">>, T_VERS, <<"5">>)
L_FORM == Line3(<<"2">>, T_FORM, <<"f">>)
L_SOUR == Line3(<<"1">>, T_SOUR, <<"s">>)
L_CHARSET == Line3(<<"1">>, T_CHAR, E_ASCII)

HeaderLines == {L_HEAD, L_GEDC, L_VERS, L_FORM, L_SOUR, L_CHARSET, L_INDI}

ReadHeaderLine ==
    /\ pc = "loop"
    /\ Len(lines) < MaxHeaderLines
    /\ \E raw \in HeaderLines : TakeLine(raw, Feed(Assembler, parseLine(raw)))

NextHeader == ReadHeaderLine \/ EndOfInput

SpecHeader == Init /\ [][NextHeader]_vars

\* the last n lines read, in the header record
HeaderEndsWith(ls) ==
    /\ Len(lines) > Len(ls)
    /\ SubSeq(lines, Len(lines) - Len(ls) + 1, Len(lines)) = ls
    /\ IsSome(currentRecord) /\ Get(currentRecord).type = T_header

\* header.gedcom and header.source, with every property absent when the
\* header has no such object
GedcomOf(tr, h) == IF IsSome(tr.header.gedcom) THEN h[Get(tr.header.gedcom)] ELSE EmptyObject
SourceOf(tr, h) == IF IsSome(tr.header.source) THEN h[Get(tr.header.source)] ELSE EmptyObject

\* C27: after 1 GEDC / 2 VERS v / 2 FORM f the header has the GEDCOM version
\* v and form f; a 2 VERS v under 1 SOUR sets the version of the source and
\* not the GEDCOM version
C27_HeaderGedcom ==
    /\ HeaderEndsWith(<<L_GEDC, L_VERS, L_FORM>>) =>
          /\ GedcomOf(tree, heap).version = Some(<<"5">>)
          /\ GedcomOf(tree, heap).form = Some(<<"f">>)
    /\ HeaderEndsWith(<<L_HEAD, L_SOUR, L_VERS>>) =>
          /\ SourceOf(tree, heap).version = Some(<<"5">>)
          /\ GedcomOf(tree, heap).version = None

\* 0 HEAD / 1 GEDC / 2 VERS 5 / 2 FORM f: header.gedcom is an object without
\* version and form
C27_EmptyGedcom ==
    /\ lines = <<L_HEAD, L_GEDC, L_VERS, L_FORM>>
    /\ IsSome(tree.header.gedcom)
    /\ GedcomOf(tree, heap) = EmptyObject

\* 0 HEAD / 1 SOUR s / 2 VERS 5: the source has the version
C27_SourceVersion ==
    /\ lines = <<L_HEAD, L_SOUR, L_VERS>>
    /\ SourceOf(tree, heap).name = Some(<<"s">>)
    /\ SourceOf(tree, heap).version = Some(<<"5">>)

----------------------------------------------------------------------------
(* Dates with a modifier keyword *)

\* a word with its first letter in upper case and the others in lower case
Capitalised(w) == <<w[1]>> \o toLowerCase(Tail(w))

\* the twelve keywords in upper, lower and mixed case, two words that are no
\* keyword, and no word
ModifierWords ==
    UNION {{Modifiers[k], toLowerCase(Modifiers[k]), Capitalised(Modifiers[k])} :
              k \in 1..Len(Modifiers)}
      \cup {<<"A", "B">>, <<"A", "B", "T", "X">>, <<>>}

ModifierGaps == {<<" ">>, <<" ", " ">>, <<"\t">>}

DateRests ==
    {<<>>, D_1979, JoinTokens(<<D_20, D_JUN, D_1979>>, 1), JoinTokens(<<D_JUN, D_1979>>, 1),
     JoinTokens(<<D_1979, D_AG>>, 1), D_FOO, M_ABT, JoinTokens(<<M_ABT, D_1979>>, 1)}

ModifiedDates ==
    {word \o (IF word = <<>> THEN <<>> ELSE gap) \o rest :
        word \in ModifierWords, gap \in ModifierGaps, rest \in DateRests}

ParseModifiedDate ==
    /\ query = NoQuery
    /\ \E dateStr \in ModifiedDates : ParseGedcomDate(dateStr)

NextModifier == ParseModifiedDate

SpecModifier == Init /\ [][NextModifier]_vars

ShortModifiers == {M_ABT, M_BEF, M_AFT, M_BET, M_EST, M_CAL}

\* C28: the modifier of a date that parseGedcomDate returns is null or one
\* of ABT, BEF, AFT, BET, EST, CAL
C28_ModifierSet ==
    (query.name = "parseGedcomDate" /\ result # None)
        => \/ Get(result).modifier = None
           \/ \E m \in ShortModifiers : Get(result).modifier = Some(m)

\* about 1979: the modifier of the date is ABOUT
C28_LongModifier ==
    /\ query.name = "parseGedcomDate"
    /\ query.id = toLowerCase(M_ABOUT) \o <<" ">> \o D_1979
    /\ result = ParsedDate(GREGORIAN, 1979, 1, 1, Some(M_ABOUT), query.id)

\* Bef 1979 AG: the modifier of the date is BEF
C28_ShortModifier ==
    /\ query.name = "parseGedcomDate"
    /\ query.id = Capitalised(M_BEF) \o <<" ">> \o JoinTokens(<<D_1979, D_AG>>, 1)
    /\ result = ParsedDate(D_AG, 1979, 1, 1, Some(M_BEF), query.id)

----------------------------------------------------------------------------
(* Year differences of dates with a month and a day *)

\* the dates handed to calculateYearDifference: a year alone, a month and a
\* year, or a day, a month and a year, with or without a calendar suffix
DifferenceDates ==
    {parseGedcomDate(JoinTokens(front \o <<year>> \o suffix, 1)) :
        front \in {<<>>, <<D_MAR>>, <<D_JUN>>, <<D_3, D_MAR>>, <<D_20, D_MAR>>,
                   <<D_3, D_JUN>>, <<D_20, D_JUN>>},
        year \in {D_1979, D_2001},
        suffix \in {<<>>, <<D_AG>>}}

YearDifference ==
    /\ query = NoQuery
    /\ \E fromDate \in DifferenceDates, toDate \in DifferenceDates :
          CalculateYearDifference(fromDate, toDate)

NextDifference == YearDifference

SpecDifference == Init /\ [][NextDifference]_vars

\* the first pair is before the second in lexicographic order
Precedes(p, q) ==
    \E i \in 1..2 : p[i] < q[i] /\ \A j \in 1..(i - 1) : p[j] = q[j]

MonthDay(date) == <<date.month, date.day>>

\* C29: for two dates of the same calendar calculateYearDifference returns
\* the difference of the years, less one exactly when the month and day of
\* the second date precede the month and day of the first
C29_YearDifference ==
    (/\ query.name = "calculateYearDifference"
     /\ query.id[1] # None /\ query.id[2] # None
     /\ Get(query.id[1]).calendar = Get(query.id[2]).calendar)
        => LET from == Get(query.id[1])
               to == Get(query.id[2])
           IN  result = Some(to.year - from.year
                             - (IF Precedes(MonthDay(to), MonthDay(from)) THEN 1 ELSE 0))

\* from 20 JUN 1979 to 3 JUN 2001: the same month, an earlier day, 21 years
C29_Witness ==
    /\ query.name = "calculateYearDifference"
    /\ query.id[1] = parseGedcomDate(JoinTokens(<<D_20, D_JUN, D_1979>>, 1))
    /\ query.id[2] = parseGedcomDate(JoinTokens(<<D_3, D_JUN, D_2001>>, 1))
    /\ result = Some(21)

----------------------------------------------------------------------------
(* Statistics of a Tree with dates of two calendars *)

\* a file of two individuals with the given dates of birth and death
StatsFile(birth1, death1, birth2, death2) ==
    <<Line3(<<"0">>, X_I1, T_INDI), Line3(<<"1">>, T_SEX, <<"M">>)>>
    \o EventLines(T_BIRT, birth1)
    \o EventLines(T_DEAT, death1)
    \o <<Line3(<<"0">>, X_I2, T_INDI), Line3(<<"1">>, T_SEX, <<"F">>)>>
    \o EventLines(T_BIRT, birth2)
    \o EventLines(T_DEAT, death2)
    \o <<L_TRLR>>

StatsBirths ==
    {None, Some(JoinTokens(<<D_20, D_JUN, D_1979>>, 1)),
     Some(JoinTokens(<<M_ABT, D_10191, D_AG>>, 1)),
     Some(JoinTokens(<<D_1979, D_AG>>, 1)),
     Some(JoinTokens(<<D_20, D_FOO, D_1979>>, 1))}

StatsDeaths ==
    {None, Some(JoinTokens(<<D_3, D_MAR, D_2001>>, 1)),
     Some(JoinTokens(<<D_2001, D_AG>>, 1)),
     Some(JoinTokens(<<D_10191, D_BG>>, 1))}

InitStats ==
    /\ \E birth1 \in StatsBirths, death1 \in StatsDeaths,
          birth2 \in StatsBirths, death2 \in StatsDeaths :
          LoadedFrom(parse(StatsFile(birth1, death1, birth2, death2)))
    /\ query = NoQuery
    /\ result = <<>>
    /\ frames = <<>>
    /\ out = <<>>
    /\ visited = {}
    /\ NoShell

NextStats == GetStats

SpecStats == InitStats /\ [][NextStats]_vars

\* the years of the parseable dates of an event that have calendar c, in the
\* order of the individuals
RECURSIVE YearsOf(_, _)
YearsOf(dates, c) ==
    IF dates = <<>> THEN <<>>
    ELSE (IF Head(dates).calendar = c THEN <<Head(dates).year>> ELSE <<>>)
         \o YearsOf(Tail(dates), c)

CalendarsOf(dates) == {dates[k].calendar : k \in 1..Len(dates)}

\* byCalendar has one key for each calendar of the dates, with the years of
\* the dates of that calendar
GroupedByCalendar(byCalendar, dates) ==
    /\ {byCalendar[k].key : k \in 1..Len(byCalendar)} = CalendarsOf(dates)
    /\ \A k \in 1..Len(byCalendar) :
          /\ byCalendar[k].val = YearsOf(dates, byCalendar[k].key)
          /\ \A h \in 1..Len(byCalendar) : byCalendar[h].key = byCalendar[k].key => h = k

\* the earliest and latest year are the least and greatest year of one
\* calendar
RangeOfOneCalendar(earliest, latest, byCalendar) ==
    (earliest # None \/ latest # None)
        => \E k \in 1..Len(byCalendar) :
              /\ earliest = MinYear(byCalendar[k].val)
              /\ latest = MaxYear(byCalendar[k].val)

StatsGrouped ==
    query.name = "getStats"
        => /\ GroupedByCalendar(result.birthsByCalendar, DatesFrom(tree, "birth", 1))
           /\ GroupedByCalendar(result.deathsByCalendar, DatesFrom(tree, "death", 1))

\* C30: birthsByCalendar and deathsByCalendar hold for each calendar the
\* years of the parseable dates of that calendar, and the earliest and latest
\* year of birth and of death are the least and greatest year of one calendar
C30_PerCalendar ==
    /\ StatsGrouped
    /\ query.name = "getStats"
          => /\ RangeOfOneCalendar(result.earliestBirth, result.latestBirth,
                                   result.birthsByCalendar)
             /\ RangeOfOneCalendar(result.earliestDeath, result.latestDeath,
                                   result.deathsByCalendar)

\* births 20 JUN 1979 and ABT 10191 AG: the earliest birth is 1979 and the
\* latest 10191
C30_MixedRange ==
    /\ query.name = "getStats"
    /\ result.birthsByCalendar = <<[key |-> GREGORIAN, val |-> <<1979>>],
                                   [key |-> D_AG, val |-> <<10191>>]>>
    /\ result.earliestBirth = Some(1979)
    /\ result.latestBirth = Some(10191)

\* births ABT 10191 AG and 1979 AG: one calendar with both years
C30_OneCalendar ==
    /\ query.name = "getStats"
    /\ result.birthsByCalendar = <<[key |-> D_AG, val |-> <<10191, 1979>>]>>
    /\ result.earliestBirth = Some(1979)
    /\ result.latestBirth = Some(10191)

----------------------------------------------------------------------------
(* The date context called directly: setFictionalDateContext,
   getFictionalDateContext, clearFictionalDateContext *)

\* the values a property of a context object can have
JsNumber(n) == [type |-> "number", num |-> n, nan |-> FALSE, str |-> <<>>]
JsNaN == [type |-> "number", num |-> 0, nan |-> TRUE, str |-> <<>>]
JsString(s) == [type |-> "string", num |-> 0, nan |-> FALSE, str |-> s]
JsUndefined == [type |-> "undefined", num |-> 0, nan |-> FALSE, str |-> <<>>]

\* !v is false
JsTruthy(v) ==
    CASE v.type = "number" -> ~v.nan /\ v.num # 0
      [] v.type = "string" -> v.str # <<>>
      [] OTHER -> FALSE

\* what a call gives back: undefined, or the Error it throws
ReturnedUndefined == Some(JsUndefined)
ThrownError == Some([type |-> "error", num |-> 0, nan |-> FALSE, str |-> <<"E">>])

\* a set that throws whenever the context is not complete and clears the
\* stored context as it does
setContext_ClearsOnThrow(old, context) ==
    IF context = None THEN [context |-> None, returned |-> ReturnedUndefined]
    ELSE IF ~JsTruthy(Get(context).calendar) \/ Get(context).year.type # "number"
    THEN [context |-> None, returned |-> ThrownError]
    ELSE [context |-> Some([calendar |-> Get(context).calendar,
                            year |-> Get(context).year,
                            month |-> IF JsTruthy(Get(context).month)
                                      THEN Get(context).month ELSE JsNumber(1),
                            day |-> IF JsTruthy(Get(context).day)
                                    THEN Get(context).day ELSE JsNumber(1)]),
          returned |-> ReturnedUndefined]

\* setFictionalDateContext(context) for any argument: the module variable
\* after the call and what the call gives back
setContext(old, context) ==
    IF context = None THEN [context |-> None, returned |-> ReturnedUndefined]
    ELSE IF ~JsTruthy(Get(context).calendar) \/ Get(context).year.type # "number"
    THEN [context |-> old, returned |-> ThrownError]
    ELSE [context |-> Some([calendar |-> Get(context).calendar,
                            year |-> Get(context).year,
                            month |-> IF JsTruthy(Get(context).month)
                                      THEN Get(context).month ELSE JsNumber(1),
                            day |-> IF JsTruthy(Get(context).day)
                                    THEN Get(context).day ELSE JsNumber(1)]),
          returned |-> ReturnedUndefined]

\* the arguments of setFictionalDateContext: null, or an object whose
\* properties may be missing or of another type
ContextArgs ==
    {None} \cup
    {Some([calendar |-> calendar, year |-> year, month |-> month, day |-> day]) :
        calendar \in {JsString(D_AG), JsString(GREGORIAN), JsString(<<>>), JsUndefined},
        year \in {JsNumber(10191), JsNumber(1990), JsNaN, JsString(D_10191), JsUndefined},
        month \in {JsUndefined, JsNumber(6)},
        day \in {JsUndefined, JsNumber(15)}}

\* a call of one of the three functions: the last call made, what it gave
\* back, and the module variable after it
ContextCall(name, arg, returned, context) ==
    /\ query' = [name |-> name, id |-> arg, depth |-> 0]
    /\ result' = returned
    /\ fictionalDateContext' = context
    /\ UNCHANGED <<parseVars, walkVars, disk, models, app, navigator, formatter>>

SetFictionalDateContext ==
    \E context \in ContextArgs :
        ContextCall("setFictionalDateContext", context,
                    setContext(fictionalDateContext, context).returned,
                    setContext(fictionalDateContext, context).context)

GetFictionalDateContext ==
    ContextCall("getFictionalDateContext", None, fictionalDateContext,
                fictionalDateContext)

ClearFictionalDateContext ==
    ContextCall("clearFictionalDateContext", None, ReturnedUndefined, None)

NextContext ==
    \/ SetFictionalDateContext
    \/ GetFictionalDateContext
    \/ ClearFictionalDateContext

SpecContext == Init /\ [][NextContext]_vars

\* a property that was given
Given(v) == v.type # "undefined"

\* the context a set with a calendar and a numeric year stores
StoredContext(c) ==
    Some([calendar |-> c.calendar, year |-> c.year,
          month |-> IF Given(c.month) THEN c.month ELSE JsNumber(1),
          day |-> IF Given(c.day) THEN c.day ELSE JsNumber(1)])

\* validation rejects a context with no calendar or a year that is no number
Rejected(c) ==
    \/ ~Given(c.calendar) \/ c.calendar = JsString(<<>>)
    \/ c.year.type # "number"

\* a call changes the context as the protocol says
ContextStep ==
    /\ query'.name = "setFictionalDateContext" =>
          IF query'.id = None
          THEN fictionalDateContext' = None /\ result' = ReturnedUndefined
          ELSE IF Rejected(Get(query'.id))
          THEN fictionalDateContext' = fictionalDateContext /\ result' = ThrownError
          ELSE /\ fictionalDateContext' = StoredContext(Get(query'.id))
               /\ result' = ReturnedUndefined
    /\ query'.name = "clearFictionalDateContext" => fictionalDateContext' = None
    /\ query'.name = "getFictionalDateContext" =>
          /\ result' = fictionalDateContext
          /\ fictionalDateContext' = fictionalDateContext

\* C31: the context is null before any call and after a clear or a set of
\* null; a set with a calendar and a numeric year stores its calendar, year,
\* month and day, with 1 for a month or day not given; a rejected set throws
\* and leaves the context as it was; a get returns the context
C31_ContextProtocol ==
    /\ fictionalDateContext = None
    /\ [][ContextStep]_vars

\* a set with the calendar alone was rejected after a set of AG 10191, which
\* is still the context
C31_Witness ==
    /\ query.name = "setFictionalDateContext"
    /\ query.id # None
    /\ Get(query.id).calendar = JsString(GREGORIAN)
    /\ Get(query.id).year = JsUndefined
    /\ result = ThrownError
    /\ fictionalDateContext =
          Some([calendar |-> JsString(D_AG), year |-> JsNumber(10191),
                month |-> JsNumber(1), day |-> JsNumber(15)])

----------------------------------------------------------------------------
(* The message of the reload command *)

ReloadSucceeded == "File reloaded successfully. Navigation reset to root."

\* C32: the reload command answers that the file was reloaded only when a
\* newly parsed Tree replaced the old one and the navigator is at root, and
\* answers with a failure when the file could not be read or parsed
C32_ReloadReport ==
    query.name = "reload" =>
        /\ result.returned = ReloadSucceeded
              => /\ result.reloaded = "true"
                 /\ app.tree = Len(models) /\ navigator.tree = Len(models)
                 /\ AtRoot(navigator)
        /\ result.reloaded = "false" => result.returned = "Failed to reload"

\* reload of the file whose parse throws, given at a family: the Tree, the
\* place and the history are as before and the command answers that the
\* file was reloaded
C32_SuccessReported ==
    /\ query.name = "reload"
    /\ result.reloaded = "false"
    /\ result.returned = ReloadSucceeded
    /\ disk = Some(ShellFileBad)
    /\ navigator.currentFamily = Some([model |-> 1, id |-> X_F1])
    /\ Len(navigator.history) = 1
    /\ app.tree = 1

\* reload of a file that parses: a new Tree, the navigator at root, and the
\* same answer
C32_Reloaded ==
    /\ query.name = "reload"
    /\ result.reloaded = "true"
    /\ result.returned = ReloadSucceeded
    /\ app.tree = 2
    /\ AtRoot(navigator)

----------------------------------------------------------------------------
(* Parents and children of the same Tree *)

\* the ids of the individuals getParents returns, and of those getChildren
\* returns
ParentIds(tr, id) ==
    {Get(getParents(tr, id, None)[k].individual).key :
        k \in 1..Len(getParents(tr, id, None))}
ChildIds(tr, id) ==
    {Get(getChildren(tr, id, None)[k]).key : k \in 1..Len(getChildren(tr, id, None))}

\* C33: after a call of getParents or getChildren, an individual is a parent
\* of another by getParents exactly when the other is its child by getChildren
C33_ParentChildInverse ==
    query.name \in {"getParents", "getChildren"}
        => \A p \in IndividualIds :
              /\ query.name = "getParents" =>
                    (p \in {Get(result[k].individual).key : k \in 1..Len(result)}
                        <=> query.id \in ChildIds(tree, p))
              /\ query.name = "getChildren" =>
                    (p \in {Get(result[k]).key : k \in 1..Len(result)}
                        <=> query.id \in ParentIds(tree, p))

\* I1 names F1 by FAMC and F1 names I2 as HUSB, without FAMS and CHIL:
\* getParents of I1 returns I2, and getChildren of I2 returns nobody
C33_ParentWithoutChild ==
    /\ query.name = "getParents" /\ query.id = X_I1
    /\ Len(result) = 1
    /\ result[1].relation = "father"
    /\ Get(result[1].individual).key = X_I2
    /\ getChildren(tree, X_I2, None) = <<>>

\* I2 names F1 by FAMS and F1 names I1 by CHIL, without FAMC: getChildren of
\* I2 returns I1, and getParents of I1 returns nobody
C33_ChildWithoutParent ==
    /\ query.name = "getChildren" /\ query.id = X_I2
    /\ Len(result) = 1
    /\ Get(result[1]).key = X_I1
    /\ getParents(tree, X_I1, None) = <<>>

----------------------------------------------------------------------------
(* Statistics of a Tree by sex *)

\* the SEX line of an individual: none, one without a value, or one with a
\* value
SexLines ==
    {<<>>, <<Line2(<<"1">>, T_SEX)>>}
    \cup {<<Line3(<<"1">>, T_SEX, <<v>>)>> : v \in {"M", "F", "U", "X", "m", "f"}}

SexFile(sex1, sex2) ==
    <<Line3(<<"0">>, X_I1, T_INDI)>> \o sex1
    \o <<Line3(<<"0">>, X_I2, T_INDI)>> \o sex2
    \o <<L_TRLR>>

InitSex ==
    /\ \E sex1 \in SexLines, sex2 \in SexLines : LoadedFrom(parse(SexFile(sex1, sex2)))
    /\ query = NoQuery
    /\ result = <<>>
    /\ frames = <<>>
    /\ out = <<>>
    /\ visited = {}
    /\ NoShell

NextSex == GetStats

SpecSex == InitSex /\ [][NextSex]_vars

\* C34: the three counts by sex of getStats add up to totalIndividuals
C34_SexPartition ==
    query.name = "getStats"
        => result.maleCount + result.femaleCount + result.unknownGender
             = result.totalIndividuals

\* I1 has 1 SEX X and I2 has 1 SEX M: two individuals, one male, no female
\* and none of unknown sex
C34_OtherSex ==
    /\ query.name = "getStats"
    /\ Get(getIndividual(tree, X_I1)).val.sex = Some(<<"X">>)
    /\ Get(getIndividual(tree, X_I2)).val.sex = Some(<<"M">>)
    /\ result.totalIndividuals = 2
    /\ result.maleCount = 1 /\ result.femaleCount = 0 /\ result.unknownGender = 0

\* I1 has a SEX line without a value and I2 has 1 SEX F: one female and one
\* of unknown sex
C34_KnownSexes ==
    /\ query.name = "getStats"
    /\ Get(getIndividual(tree, X_I1)).val.sex = Some(<<>>)
    /\ Get(getIndividual(tree, X_I2)).val.sex = Some(<<"F">>)
    /\ result.totalIndividuals = 2
    /\ result.maleCount = 0 /\ result.femaleCount = 1 /\ result.unknownGender = 1

----------------------------------------------------------------------------
(* The state of the navigator between commands *)

\* at most one of the individual and the family is current, and the path
\* names the one that is
Located(nav) ==
    /\ nav.currentIndividual = None \/ nav.currentFamily = None
    /\ nav.currentPath = P_root
          <=> (nav.currentIndividual = None /\ nav.currentFamily = None)
    /\ \A id \in IndividualIds :
          nav.currentPath = P_individuals \o id
            <=> (nav.currentIndividual # None /\ Get(nav.currentIndividual).id = id)
    /\ \A id \in FamilyIds :
          nav.currentPath = P_families \o id
            <=> (nav.currentFamily # None /\ Get(nav.currentFamily).id = id)

\* the answers of cd to a navigation that failed
FailedAnswers == {"Individual not found", "Error", "Family not found", "Already at root"}

\* C35: between commands at most one of currentIndividual and currentFamily
\* is set and currentPath names the root, the current individual or the
\* current family; a navigation that fails leaves the place and the history
\* as they were
C35_NavigatorConsistent ==
    /\ []Located(navigator)
    /\ [][(query'.name \in {"cd", "cd .."} /\ result' \in FailedAnswers)
            => UNCHANGED navigator]_vars

\* cd al at the family F1, one step from root, matches two individuals
C35_Witness ==
    /\ query.name = "cd" /\ result = "Error"
    /\ query.id = [type |-> "family", id |-> X_F1]
    /\ navigator.currentFamily = Some([model |-> 1, id |-> X_F1])
    /\ navigator.currentIndividual = None
    /\ navigator.currentPath = P_families \o X_F1
    /\ Len(navigator.history) = 1

\* C36: a navigator with an empty history has no current individual and no
\* current family, so cd .. answers Already at root only at root
C36_EmptyHistoryAtRoot ==
    /\ navigator.history = <<>>
          => (navigator.currentIndividual = None /\ navigator.currentFamily = None)
    /\ (query.name = "cd .." /\ result = "Already at root")
          => /\ query.id.type = "root"
             /\ getCurrentContext(navigator).type = "root"

\* cd .. at an individual took the last entry of the history and led to root
C36_Witness ==
    /\ query.name = "cd .." /\ result = "Navigated back"
    /\ query.id.type = "individual"
    /\ navigator.history = <<>>
    /\ navigator.currentIndividual = None /\ navigator.currentFamily = None

----------------------------------------------------------------------------
(* Files of NOTE records *)

\* the most lines of a file of NOTE records
MaxNoteRecordLines == 5

L_NOTEV == Line3(<<"0">>, X_N1, T_NOTE) \o SP \o <<"v">>
L_NOTEW == Line3(<<"0">>, X_N2, T_NOTE) \o SP \o <<"w">>
L_NCONT == Line3(<<"1">>, T_CONT, <<"c">>)
L_NCONT2 == Line3(<<"1">>, T_CONT, <<"d">>)

NoteRecordLines == {L_NOTEV, L_NOTEW, L_NOTEREC, L_NCONT, L_NCONT2, L_INDI, L_TRLR}

ReadNoteRecordLine ==
    /\ pc = "loop"
    /\ Len(lines) < MaxNoteRecordLines
    /\ \E raw \in NoteRecordLines : TakeLine(raw, Feed(Assembler, parseLine(raw)))

NextNoteRecord == ReadNoteRecordLine \/ EndOfInput

SpecNoteRecord == Init /\ [][NextNoteRecord]_vars

\* the place of the last level-0 line of ls, 0 when there is none
Opening(ls) ==
    IF \E k \in 1..Len(ls) : Get(Tok(ls, k)).level = 0
    THEN CHOOSE k \in 1..Len(ls) :
            /\ Get(Tok(ls, k)).level = 0
            /\ \A j \in (k + 1)..Len(ls) : Get(Tok(ls, j)).level # 0
    ELSE 0

\* the lines end with a NOTE record that has a value on its opening line and
\* then 1 CONT lines only
ValueNote(ls) ==
    /\ Opening(ls) > 0
    /\ Get(Tok(ls, Opening(ls))).tag = T_NOTE
    /\ IsSome(Get(Tok(ls, Opening(ls))).xref)
    /\ Get(Tok(ls, Opening(ls))).value # <<>>
    /\ \A j \in (Opening(ls) + 1)..Len(ls) :
          Get(Tok(ls, j)).level = 1 /\ Get(Tok(ls, j)).tag = T_CONT

\* a newline and the value of each line from the j-th on
RECURSIVE Continued(_, _)
Continued(ls, j) ==
    IF j > Len(ls) THEN <<>>
    ELSE NewLine \o Get(Tok(ls, j)).value \o Continued(ls, j + 1)

NoteTextOf(tr, id) ==
    IF getNote(tr, id) = None THEN None ELSE Get(getNote(tr, id)).val.text

\* C37: when the line after a NOTE record with a value v on its opening line
\* and 1 CONT lines closes the record, the text of the stored note is v, then
\* a newline and the value of each CONT line in order
C37_NoteText ==
    [][(/\ lines' # lines
        /\ ValueNote(lines)
        /\ LastIsBoundary(lines'))
       => NoteTextOf(tree', Get(Get(Tok(lines, Opening(lines))).xref))
            = Some(Get(Tok(lines, Opening(lines))).value
                     \o Continued(lines, Opening(lines) + 1))]_vars

\* 0 @N1@ NOTE v / 0 TRLR: the text of the note is its id
C37_ValueDropped ==
    /\ lines = <<L_NOTEV, L_TRLR>>
    /\ NoteTextOf(tree, X_N1) = Some(X_N1)

\* 0 @N1@ NOTE v / 1 CONT c / 1 CONT d / 0 TRLR: the text of the note starts
\* with a newline
C37_ContinuationOnly ==
    /\ lines = <<L_NOTEV, L_NCONT, L_NCONT2, L_TRLR>>
    /\ NoteTextOf(tree, X_N1) = Some(NewLine \o <<"c">> \o NewLine \o <<"d">>)

----------------------------------------------------------------------------
(* Files of individuals with inline notes inside and after events *)

\* the most lines of a file of inline notes
MaxInlineLines == 5

L_BAPM == Line2(<<"1">>, T_BAPM)
L_ENOTE == Line3(<<"2">>, T_NOTE, <<"u">>)

InlineLines == {L_INDI, L_BIRT, L_BAPM, L_RESI, L_DATE, L_NOTE, L_ENOTE, L_TRLR}

ReadInlineLine ==
    /\ pc = "loop"
    /\ Len(lines) < MaxInlineLines
    /\ \E raw \in InlineLines : TakeLine(raw, Feed(Assembler, parseLine(raw)))

NextInline == ReadInlineLine \/ EndOfInput

SpecInline == Init /\ [][NextInline]_vars

\* the individual d has the text v in its notes list or as the note of its
\* baptism, first communion or a graduation
KeptNote(d, v) ==
    \/ \E k \in 1..Len(d.notes) : d.notes[k].text = Some(v)
    \/ d.baptism # None /\ Get(d.baptism).note = v
    \/ d.firstCommunion # None /\ Get(d.firstCommunion).note = v
    \/ \E k \in 1..Len(d.graduations) : d.graduations[k].note = v

\* the j-th line is a NOTE line with an inline text
InlineNoteAt(ls, j) ==
    /\ Get(Tok(ls, j)).tag = T_NOTE
    /\ Get(Tok(ls, j)).value # <<>>
    /\ ~IsReference(Get(Tok(ls, j)).value)

\* C38: when a line closes an INDI record, the stored individual has the text
\* of every inline NOTE line of the record, in its notes list or as the note
\* of a committed event
C38_NotesKept ==
    [][(/\ lines' # lines
        /\ IsSome(currentRecord) /\ Get(currentRecord).type = T_INDI
        /\ LastIsBoundary(lines'))
       => \A j \in (Opening(lines) + 1)..Len(lines) :
             InlineNoteAt(lines, j)
               => /\ getIndividual(tree', Get(currentRecord).id) # None
                  /\ KeptNote(Get(getIndividual(tree', Get(currentRecord).id)).val,
                              Get(Tok(lines, j)).value)]_vars

\* 0 @I1@ INDI / 1 BIRT / 2 DATE x / 1 NOTE t / 0 TRLR: the individual has a
\* birth with the date, no notes, and the text t nowhere
C38_NoteLost ==
    /\ lines = <<L_INDI, L_BIRT, L_DATE, L_NOTE, L_TRLR>>
    /\ getIndividual(tree, X_I1) # None
    /\ Get(getIndividual(tree, X_I1)).val.birth = Some([date |-> <<"x">>, place |-> <<>>])
    /\ Get(getIndividual(tree, X_I1)).val.notes = <<>>
    /\ ~KeptNote(Get(getIndividual(tree, X_I1)).val, <<"t">>)

\* 0 @I1@ INDI / 1 NOTE t / 1 BAPM / 2 NOTE u / 0 TRLR: t is in the notes list
\* and u is the note of the baptism
C38_NotesStored ==
    /\ lines = <<L_INDI, L_NOTE, L_BAPM, L_ENOTE, L_TRLR>>
    /\ getIndividual(tree, X_I1) # None
    /\ Get(getIndividual(tree, X_I1)).val.notes[1].text = Some(<<"t">>)
    /\ Get(Get(getIndividual(tree, X_I1)).val.baptism).note = <<"u">>

----------------------------------------------------------------------------
(* Files with level-0 lines that open no record *)

\* the most lines of such a file
MaxOwnLines == 5

L_NOREC == Line2(<<"0">>, D_FOO)
L_SEXM == Line3(<<"1">>, T_SEX, <<"M">>)

OwnLines == {L_INDI, L_INDI2, L_FAM, L_BADXREF, L_NOREC, L_SEXM, L_FAMC, L_TRLR}

ReadOwnLine ==
    /\ pc = "loop"
    /\ Len(lines) < MaxOwnLines
    /\ \E raw \in OwnLines : TakeLine(raw, Feed(Assembler, parseLine(raw)))

NextOwn == ReadOwnLine \/ EndOfInput

SpecOwn == Init /\ [][NextOwn]_vars

\* the text of the line starts with the level 0
WrittenAtLevel0(raw) == Len(raw) >= 2 /\ raw[1] = "0" /\ raw[2] = " "

\* the place of the last line of ls written at level 0, 0 when there is none
LastWrittenAtLevel0(ls) ==
    IF \E k \in 1..Len(ls) : WrittenAtLevel0(ls[k])
    THEN CHOOSE k \in 1..Len(ls) :
            /\ WrittenAtLevel0(ls[k])
            /\ \A j \in (k + 1)..Len(ls) : ~WrittenAtLevel0(ls[j])
    ELSE 0

\* the line gives a token that opens a record with an id
OpensRecord(raw) ==
    /\ parseLine(raw) # None
    /\ Get(parseLine(raw)).level = 0
    /\ Get(parseLine(raw)).tag \notin {T_HEAD, T_TRLR}
    /\ IsSome(Get(parseLine(raw)).xref)

\* rec is the record the line opens
OpenedBy(raw, rec) ==
    /\ rec # None
    /\ Get(rec).type = Get(parseLine(raw)).tag
    /\ Get(rec).id = Get(Get(parseLine(raw)).xref)

\* C39: a line at a level above 0 changes only the record that the nearest
\* line before it written at level 0 opened, and changes nothing when that
\* line gave no token or opened no record
C39_OwnRecordOnly ==
    [][(/\ lines' # lines
        /\ LastLine(lines') # None
        /\ Get(LastLine(lines')).level > 0)
       => IF /\ LastWrittenAtLevel0(lines) > 0
             /\ OpensRecord(lines[LastWrittenAtLevel0(lines)])
          THEN /\ tree' = tree
               /\ OpenedBy(lines[LastWrittenAtLevel0(lines)], currentRecord)
               /\ OpenedBy(lines[LastWrittenAtLevel0(lines)], currentRecord')
          ELSE UNCHANGED <<tree, currentRecord, currentEvent, stack, heap>>]_vars

\* 0 @I1@ INDI / 0 @I-1@ INDI / 1 SEX M / 0 TRLR: the individual I1 has the
\* sex M
C39_AttachedToEarlier ==
    /\ lines = <<L_INDI, L_BADXREF, L_SEXM, L_TRLR>>
    /\ getIndividual(tree, X_I1) # None
    /\ Get(getIndividual(tree, X_I1)).val.sex = Some(<<"M">>)

\* 0 @I1@ INDI / 0 FOO / 1 SEX M / 0 TRLR: the individual I1 has no sex
C39_Ignored ==
    /\ lines = <<L_INDI, L_NOREC, L_SEXM, L_TRLR>>
    /\ getIndividual(tree, X_I1) # None
    /\ Get(getIndividual(tree, X_I1)).val.sex = None

====
